---- MODULE Spec2Model ----
(***************************************************************************)
(* The qcow2 cluster refcount and allocation engine                        *)
(* (src/block/qcow2-refcount.c) as a state machine.                        *)
(*                                                                         *)
(* The variable s is the BDRVQcowState of one open image together with     *)
(* what the image file holds (header fields, refcount tables, refcount     *)
(* blocks) and what the refcount block cache holds.  Every public          *)
(* operation is one action; what it calls (update_refcount,                *)
(* alloc_refcount_block, table growth, the discard queue) is computed by   *)
(* operators that follow the C code statement by statement on a record S   *)
(* of the same shape as s.  The image is scaled down: clusters are         *)
(* 2^cluster_bits bytes, a refcount block holds cluster_size / 2 counters  *)
(* and a refcount table cluster holds cluster_size / 8 entries, the same   *)
(* ratios as in the code.                                                  *)
(***************************************************************************)
EXTENDS Integers, Sequences, FiniteSets, TLC

VARIABLES s, last, net, live, allok, nops

vars == <<s, last, net, live, allok, nops>>

----------------------------------------------------------------------------
(* Format parameters and error codes *)

cluster_bits == 4
cluster_size == 2 ^ cluster_bits
\* a counter is a uint16_t: refcount_block_bits = cluster_bits - REFCOUNT_SHIFT
refcount_block_bits == cluster_bits - 1
refcount_block_size == 2 ^ refcount_block_bits
\* entries of a refcount table held by one cluster: 1 << (cluster_bits - 3)
reftable_entries_per_cluster == 2 ^ (cluster_bits - 3)
\* the largest refcount table, in bytes (scaled with the image)
QCOW_MAX_REFTABLE_SIZE == 48
REFCOUNT_MAX == 65535

EIO == -5
EAGAIN == -11
EINVAL == -22
EFBIG == -27

NULL == -1

DiscardTypes == {"NEVER", "ALWAYS", "REQUEST", "SNAPSHOT", "OTHER"}

----------------------------------------------------------------------------
(* Bounds of the model *)

\* operations per behaviour
MaxOps == 3
\* the I/O calls of one operation that may be made to fail: the 1st..MaxFail-th
MaxFail == 1
\* the largest request of qcow2_alloc_clusters, in clusters
MaxAlloc == 3

----------------------------------------------------------------------------
(* Arithmetic helpers *)

MAX(a, b) == IF a > b THEN a ELSE b
MIN(a, b) == IF a < b THEN a ELSE b
DIV_ROUND_UP(n, d) == (n + d - 1) \div d

offset_into_cluster(offset) == offset % cluster_size
start_of_cluster(offset) == offset - (offset % cluster_size)
size_to_clusters(size) == (size + cluster_size - 1) \div cluster_size

\* REFT_OFFSET_MASK clears the reserved low bits of a refcount table entry;
\* scaled: the reserved bits are the low cluster_bits - 2 bits
ReftOffsetMask(entry) == entry - (entry % (2 ^ (cluster_bits - 2)))

ZeroBlock == [i \in 0..(refcount_block_size - 1) |-> 0]

\* the clusters touched by the byte range [offset, offset + length)
ClustersOf(offset, length) ==
    IF length <= 0 THEN {}
    ELSE (offset \div cluster_size)..((offset + length - 1) \div cluster_size)

R(S, ret) == [s |-> S, ret |-> ret]

\* the next call of a sequence of calls that stops at the first error: r is
\* what the calls so far left, F the next call
OnOk(r, F(_)) == IF r.ret < 0 THEN r ELSE F(r.s)

----------------------------------------------------------------------------
(* The backend and the metadata cache (their interface, as the engine uses *)
(* it).  An I/O call fails when it is the failAt-th of the operation.      *)

Event(ev, off, n, tab) == [ev |-> ev, off |-> off, n |-> n, tab |-> tab]

Log(S, ev, off, n) == [S EXCEPT !.log = Append(@, Event(ev, off, n, <<>>))]
LogT(S, ev, off, n, tab) == [S EXCEPT !.log = Append(@, Event(ev, off, n, tab))]

\* the state at a step, as the trace keeps it: without the trace itself and
\* the count of the I/O calls
Snapshot(S) ==
    [S EXCEPT !.failKind = "none", !.failAt = 0, !.ios = 0, !.log = <<>>,
              !.discarded = <<>>, !.cache_ops = 0, !.max_level = 0]

\* the kinds of I/O call that can fail
IoKinds == {"cache_get", "cache_get_empty", "flush_refcount", "flush_l2",
            "write_entry", "write_blocks", "write_table", "write_header"}

\* an operation runs with one planned failure: the failAt-th call of kind
\* failKind fails (failAt = 0: none does); ios counts the calls of that kind
Tick(S, kind) == IF kind = S.failKind THEN [S EXCEPT !.ios = @ + 1] ELSE S
IoFails(S, kind) == kind = S.failKind /\ S.ios + 1 = S.failAt

\* what a read of the refcount block at off returns from the image file
DiskBlockAt(S, off) ==
    IF off \in DOMAIN S.disk_blocks THEN S.disk_blocks[off] ELSE ZeroBlock

\* qcow2_cache_get on the refcount block cache: takes a reference, reads
\* the block from the file when the cache does not hold it
CacheGet(S, off) ==
    IF IoFails(S, "cache_get") THEN R(Tick(S, "cache_get"), EIO)
    ELSE LET S1 == Tick(S, "cache_get")
             S2 == IF off \in DOMAIN S1.blocks THEN S1
                   ELSE [S1 EXCEPT !.blocks = (off :> DiskBlockAt(S1, off)) @@ @]
         IN R([S2 EXCEPT !.refs = @ + 1, !.cache_ops = @ + 1], 0)

\* qcow2_cache_get_empty followed by the caller's memset(0)
CacheGetEmpty(S, off) ==
    IF IoFails(S, "cache_get_empty") THEN R(Tick(S, "cache_get_empty"), EIO)
    ELSE LET S1 == Tick(S, "cache_get_empty")
         IN R(Log([S1 EXCEPT !.blocks = (off :> ZeroBlock) @@ @,
                             !.refs = @ + 1, !.cache_ops = @ + 1],
                  "cache_get_empty", off, 0), 0)

\* qcow2_cache_put: gives a reference back (a put of a block that is not
\* held is recorded)
CachePut(S) ==
    LET S1 == IF S.refs > 0 THEN S ELSE Log(S, "put_unheld", 0, 0)
    IN  [S1 EXCEPT !.refs = @ - 1, !.cache_ops = @ + 1]

\* qcow2_cache_entry_mark_dirty
MarkDirty(S, off) == [S EXCEPT !.dirty = @ \cup {off}]

\* qcow2_cache_flush(refcount_block_cache): every dirty block reaches the file
FlushRefcountCache(S) ==
    IF IoFails(S, "flush_refcount") THEN R(Log(Tick(S, "flush_refcount"), "flush_refcount_fail", 0, 0), EIO)
    ELSE LET S1 == Tick(S, "flush_refcount")
             written == [o \in S1.dirty |-> S1.blocks[o]]
         IN R(Log([S1 EXCEPT !.disk_blocks = written @@ @, !.dirty = {}],
                  "flush_refcount", 0, 0), 0)

\* qcow2_cache_flush(l2_table_cache): every dirty L2 table reaches the file
\* (an image that keeps no L2 table in memory has none to write)
FlushL2Cache(S) ==
    IF IoFails(S, "flush_l2") THEN R(Log(Tick(S, "flush_l2"), "flush_l2_fail", 0, 0), EIO)
    ELSE LET S1 == Tick(S, "flush_l2")
             written == [o \in S1.l2_dirty |-> S1.l2_tables[o]]
         IN  IF "l2_dirty" \in DOMAIN S1
             THEN R(Log([S1 EXCEPT !.disk_l2 = written @@ @, !.l2_dirty = {}],
                        "flush_l2", 0, 0), 0)
             ELSE R(Log(S1, "flush_l2", 0, 0), 0)

\* qcow2_cache_set_dependency(c, dependency): dependency is flushed before c
SetDependency(S, c, dependency) ==
    Log([S EXCEPT !.deps = @ \cup {<<c, dependency>>}],
        IF c = "refcount" THEN "dep_refcount_on_l2" ELSE "dep_l2_on_refcount",
        0, 0)

\* qcow2_signal_corruption
SignalCorruption(S) == Log([S EXCEPT !.corrupt = TRUE], "corruption", 0, 0)

----------------------------------------------------------------------------
(* get_refcount *)

\* get_refcount that asks the cache for the block before it looks at the
\* table entry
GetRefcount_loadfirst(S, cluster_index) ==
    LET refcount_table_index == cluster_index \div refcount_block_size
        refcount_block_offset == S.refcount_table[refcount_table_index]
        got(g) == IF g.ret < 0 THEN g
                  ELSE IF refcount_block_offset = 0 THEN R(CachePut(g.s), 0)
                  ELSE R(CachePut(g.s),
                         g.s.blocks[refcount_block_offset]
                                   [cluster_index % refcount_block_size])
    IN  IF refcount_table_index >= S.refcount_table_size THEN R(S, 0)
        ELSE IF refcount_block_offset # 0
                  /\ offset_into_cluster(refcount_block_offset) # 0
             THEN R(SignalCorruption(S), EIO)
        ELSE got(CacheGet(S, refcount_block_offset))

\* get_refcount that keeps a cluster it found free as the place where the
\* next search starts
GetRefcount_hint(S, cluster_index) ==
    LET refcount_table_index == cluster_index \div refcount_block_size
        refcount_block_offset == S.refcount_table[refcount_table_index]
        hint(T) == [T EXCEPT !.free_cluster_index = MIN(@, cluster_index)]
        got(g) == IF g.ret < 0 THEN g
                  ELSE LET refcount == g.s.blocks[refcount_block_offset]
                                           [cluster_index % refcount_block_size]
                       IN  R(CachePut(IF refcount = 0 THEN hint(g.s) ELSE g.s),
                             refcount)
    IN  IF refcount_table_index >= S.refcount_table_size THEN R(S, 0)
        ELSE IF refcount_block_offset = 0 THEN R(hint(S), 0)
        ELSE IF offset_into_cluster(refcount_block_offset) # 0
             THEN R(SignalCorruption(S), EIO)
        ELSE got(CacheGet(S, refcount_block_offset))

GetRefcount(S, cluster_index) ==
    LET refcount_table_index == cluster_index \div refcount_block_size
    IN  IF refcount_table_index >= S.refcount_table_size THEN R(S, 0)
        ELSE LET refcount_block_offset == S.refcount_table[refcount_table_index]
             IN  IF refcount_block_offset = 0 THEN R(S, 0)
                 ELSE IF offset_into_cluster(refcount_block_offset) # 0
                      THEN R(SignalCorruption(S), EIO)
                 ELSE LET g == CacheGet(S, refcount_block_offset)
                      IN  IF g.ret < 0 THEN g
                          ELSE LET block_index ==
                                       cluster_index % refcount_block_size
                                   refcount ==
                                       g.s.blocks[refcount_block_offset][block_index]
                               IN  R(CachePut(g.s), refcount)

\* the refcount of a cluster as get_refcount reports it, read without I/O
\* failures and without keeping the changes of the cache
Refcount(S, cluster_index) ==
    GetRefcount([S EXCEPT !.failAt = 0], cluster_index).ret

----------------------------------------------------------------------------
(* The discard queue *)

\* qcow2_process_discards that hands the regions on only for ret > 0
ProcessDiscards_strict(S, ret) ==
    LET n == Len(S.discards)
        sent == IF ret > 0 THEN S.discards ELSE <<>>
        S1 == LogT(S, "process_discards", ret, n, S.discards)
    IN  [S1 EXCEPT !.discards = <<>>, !.discarded = @ \o sent]

\* bdrv_discard(bs->file, ...) of one queued region: the region is handed to
\* the backend, which discards it or fails; the caller has no use for the
\* return value
bdrv_discard(S, d) ==
    LET S1 == [Tick(S, "discard") EXCEPT !.discarded = Append(@, d)]
        S2 == LogT(S1, "bdrv_discard", d.offset, d.bytes,
                   IF IoFails(S, "discard") THEN EIO ELSE 0)
    IN  LogT(S2, "forwarded", d.offset, d.bytes,
             [c \in ClustersOf(d.offset, d.bytes) |-> Refcount(S, c)])

RECURSIVE DiscardLoop_stop(_, _)
\* the loop of qcow2_process_discards that stops at a failing bdrv_discard
DiscardLoop_stop(S, ret) ==
    IF S.discards = <<>> \/ (ret >= 0 /\ IoFails(S, "discard")) THEN S
    ELSE LET d == Head(S.discards)
             S1 == [S EXCEPT !.discards = Tail(@)]
         IN  DiscardLoop_stop(IF ret >= 0 THEN bdrv_discard(S1, d) ELSE S1, ret)

RECURSIVE DiscardLoop(_, _)
\* the loop of qcow2_process_discards: each region is removed from the
\* queue, handed to bdrv_discard when ret >= 0, and freed
DiscardLoop(S, ret) ==
    IF S.discards = <<>> THEN S
    ELSE LET d == Head(S.discards)
             S1 == [S EXCEPT !.discards = Tail(@)]
         IN  DiscardLoop(IF ret >= 0 THEN bdrv_discard(S1, d) ELSE S1, ret)

\* qcow2_process_discards: every region leaves the queue, and is handed to
\* bdrv_discard when ret >= 0
ProcessDiscards(S, ret) ==
    DiscardLoop(LogT(S, "process_discards", ret, Len(S.discards), S.discards),
                ret)

RECURSIVE FindRegion(_, _, _, _)
\* the first loop of update_refcount_discard: the first queued region that
\* the new range touches or overlaps (0 when there is none)
FindRegion(q, offset, length, i) ==
    IF i > Len(q) THEN 0
    ELSE LET new_start == MIN(offset, q[i].offset)
             new_end == MAX(offset + length, q[i].offset + q[i].bytes)
         IN  IF new_end - new_start <= length + q[i].bytes THEN i
             ELSE FindRegion(q, offset, length, i + 1)

RemoveAt(q, i) == SubSeq(q, 1, i - 1) \o SubSeq(q, i + 1, Len(q))

\* the second loop leaving every other region as it is
MergeRegions_none(q, dpos, i) == [q |-> q, dpos |-> dpos, ok |-> TRUE]

RECURSIVE MergeRegions(_, _, _)
\* the second loop: every other region that is adjacent to d (at index dpos)
\* is removed and added to d.  Returns [q, dpos, ok]; ok is FALSE when the
\* assertion "still no overlap possible" fails.
MergeRegions(q, dpos, i) ==
    IF i > Len(q) THEN [q |-> q, dpos |-> dpos, ok |-> TRUE]
    ELSE LET p == q[i]
             d == q[dpos]
         IN  IF i = dpos \/ p.offset > d.offset + d.bytes
                         \/ d.offset > p.offset + p.bytes
             THEN MergeRegions(q, dpos, i + 1)
             ELSE LET ok == (p.offset = d.offset + d.bytes
                             \/ d.offset = p.offset + p.bytes)
                      d2 == [offset |-> MIN(d.offset, p.offset),
                             bytes |-> d.bytes + p.bytes]
                      q1 == [q EXCEPT ![dpos] = d2]
                      q2 == RemoveAt(q1, i)
                      dpos2 == IF i < dpos THEN dpos - 1 ELSE dpos
                      rest == MergeRegions(q2, dpos2, i)
                  IN  [rest EXCEPT !.ok = rest.ok /\ ok]

update_refcount_discard(S, offset, length) ==
    LET q == S.discards
        k == FindRegion(q, offset, length, 1)
        new_start == MIN(offset, q[k].offset)
        new_end == MAX(offset + length, q[k].offset + q[k].bytes)
        ok1 == (k = 0) \/ (q[k].bytes + length = new_end - new_start)
        q1 == IF k = 0
              THEN Append(q, [offset |-> offset, bytes |-> length])
              ELSE [q EXCEPT ![k] = [offset |-> new_start,
                                     bytes |-> new_end - new_start]]
        dpos == IF k = 0 THEN Len(q) + 1 ELSE k
        m == MergeRegions(q1, dpos, 1)
        S1 == LogT(S, "enqueue_discard", offset, length, m.q)
    IN  [S1 EXCEPT !.discards = m.q,
                   !.assert_failed = @ \/ ~ok1 \/ ~m.ok]

----------------------------------------------------------------------------
(* Refcount table growth: its size computation *)

RECURSIVE GrowClusters(_, _)
\* the while loop of next_refcount_table_size
GrowClusters(min_clusters, refcount_table_clusters) ==
    IF min_clusters > refcount_table_clusters
    THEN GrowClusters(min_clusters, (refcount_table_clusters * 3 + 1) \div 2)
    ELSE refcount_table_clusters

next_refcount_table_size(S, min_size) ==
    LET min_clusters == (min_size \div reftable_entries_per_cluster) + 1
        refcount_table_clusters ==
            MAX(1, S.refcount_table_size \div reftable_entries_per_cluster)
    IN  GrowClusters(min_clusters, refcount_table_clusters)
            * reftable_entries_per_cluster

RECURSIVE GrowthLayout(_, _, _)
\* the do-while loop of alloc_refcount_block that sizes the new table and
\* the blocks describing it, until the table size no longer changes
GrowthLayout(S, blocks_used, table_size) ==
    LET table_clusters == size_to_clusters(table_size * 8)
        blocks_clusters ==
            1 + ((table_clusters + refcount_block_size - 1)
                 \div refcount_block_size)
        meta_clusters == table_clusters + blocks_clusters
        next_size == next_refcount_table_size(S, blocks_used +
            ((meta_clusters + refcount_block_size - 1) \div refcount_block_size))
    IN  IF next_size # table_size
        THEN GrowthLayout(S, blocks_used, next_size)
        ELSE [table_size |-> table_size, blocks_clusters |-> blocks_clusters]

\* the write of a refcount table entry whose failure goes unnoticed
WriteTableEntry_ignored(S, index, value) ==
    LET w == IF IoFails(S, "write_entry")
             THEN R(Log(Tick(S, "write_entry"), "write_entry_fail", value, index), EIO)
             ELSE R(Log(Tick(S, "write_entry"), "write_entry", value, index), 0)
    IN  R(w.s, 0)

\* bdrv_pwrite_sync of one refcount table entry
WriteTableEntry(S, index, value) ==
    IF IoFails(S, "write_entry") THEN R(Log(Tick(S, "write_entry"), "write_entry_fail", value, index), EIO)
    ELSE LET S1 == Tick(S, "write_entry")
             toff == S1.refcount_table_offset
             old == IF toff \in DOMAIN S1.disk_tables
                    THEN S1.disk_tables[toff] ELSE <<>>
             new == (index :> value) @@ old
         IN R(Log([S1 EXCEPT !.disk_tables = (toff :> new) @@ @],
                  "write_entry", value, index), 0)

\* the new refcount blocks that count the clusters of the new table only,
\* not their own
WriteNewBlocks_tableonly(S, meta_offset, blocks_clusters, n_meta) ==
    IF IoFails(S, "write_blocks") THEN R(Log(Tick(S, "write_blocks"), "write_blocks_fail", meta_offset, 0), EIO)
    ELSE LET S1 == Tick(S, "write_blocks")
             offs == {meta_offset + j * cluster_size :
                         j \in 0..(blocks_clusters - 1)}
             content(o) ==
                 LET j == (o - meta_offset) \div cluster_size
                 IN  [b \in 0..(refcount_block_size - 1) |->
                         IF j * refcount_block_size + b < n_meta - blocks_clusters
                         THEN 1 ELSE 0]
             written == [o \in offs |-> content(o)]
         IN R(Log([S1 EXCEPT !.disk_blocks = written @@ @],
                  "write_blocks", meta_offset, blocks_clusters), 0)

\* bdrv_pwrite_sync of the new refcount blocks: blocks_clusters clusters at
\* meta_offset, of which the first n_meta counters are 1
WriteNewBlocks(S, meta_offset, blocks_clusters, n_meta) ==
    IF IoFails(S, "write_blocks") THEN R(Log(Tick(S, "write_blocks"), "write_blocks_fail", meta_offset, 0), EIO)
    ELSE LET S1 == Tick(S, "write_blocks")
             offs == {meta_offset + j * cluster_size :
                         j \in 0..(blocks_clusters - 1)}
             content(o) ==
                 LET j == (o - meta_offset) \div cluster_size
                 IN  [b \in 0..(refcount_block_size - 1) |->
                         IF j * refcount_block_size + b < n_meta THEN 1 ELSE 0]
             written == [o \in offs |-> content(o)]
         IN R(Log([S1 EXCEPT !.disk_blocks = written @@ @],
                  "write_blocks", meta_offset, blocks_clusters), 0)

\* bdrv_pwrite_sync of the new refcount table
WriteNewTable(S, table_offset, new_table) ==
    IF IoFails(S, "write_table") THEN R(Log(Tick(S, "write_table"), "write_table_fail", table_offset, 0), EIO)
    ELSE LET S1 == Tick(S, "write_table")
         IN R(LogT([S1 EXCEPT !.disk_tables = (table_offset :> new_table) @@ @],
                   "write_table", table_offset, 0, new_table), 0)

\* the header written field by field: a failure after the first field
\* leaves the new table offset in the header
WriteHeader_torn(S, table_offset, table_clusters) ==
    IF IoFails(S, "write_header")
    THEN R(Log([Tick(S, "write_header") EXCEPT
                    !.hdr.refcount_table_offset = table_offset],
               "write_header_fail", table_offset, 0), EIO)
    ELSE LET S1 == Tick(S, "write_header")
         IN R(Log([S1 EXCEPT !.hdr = [refcount_table_offset |-> table_offset,
                                      refcount_table_clusters |-> table_clusters]],
                  "write_header", table_offset, table_clusters), 0)

\* bdrv_pwrite_sync of the header's refcount_table_offset and
\* refcount_table_clusters, one write of 12 bytes
WriteHeader(S, table_offset, table_clusters) ==
    IF IoFails(S, "write_header") THEN R(Log(Tick(S, "write_header"), "write_header_fail", table_offset, 0), EIO)
    ELSE LET S1 == Tick(S, "write_header")
         IN R(Log([S1 EXCEPT !.hdr = [refcount_table_offset |-> table_offset,
                                      refcount_table_clusters |-> table_clusters]],
                  "write_header", table_offset, table_clusters), 0)

\* the new table with the old one copied by its entry count taken as a
\* byte count: only the first refcount_table_size / 8 entries are kept
NewTable_shortcopy(S, table_size, blocks_used, blocks_clusters, meta_offset, refcount_table_index, new_block) ==
    [i \in 0..(table_size - 1) |->
        IF i >= blocks_used /\ i < blocks_used + blocks_clusters
        THEN meta_offset + (i - blocks_used) * cluster_size
        ELSE IF i = refcount_table_index THEN new_block
        ELSE IF i < S.refcount_table_size \div 8 THEN S.refcount_table[i]
        ELSE 0]

\* the new refcount table of a growth: the old entries, the entry of the
\* block that needed the slot, and the entries of the blocks that describe
\* the new table and themselves
NewTable(S, table_size, blocks_used, blocks_clusters, meta_offset, refcount_table_index, new_block) ==
    [i \in 0..(table_size - 1) |->
        IF i >= blocks_used /\ i < blocks_used + blocks_clusters
        THEN meta_offset + (i - blocks_used) * cluster_size
        ELSE IF i = refcount_table_index THEN new_block
        ELSE IF i < S.refcount_table_size THEN S.refcount_table[i]
        ELSE 0]

\* the writes of a growth with the header written before the new table
GrowWrites_header_first(S, meta_offset, blocks_clusters, table_clusters, table_offset, new_table) ==
    OnOk(OnOk(WriteNewBlocks(S, meta_offset, blocks_clusters,
                             table_clusters + blocks_clusters),
              LAMBDA T : WriteHeader(T, table_offset, table_clusters)),
         LAMBDA T : WriteNewTable(T, table_offset, new_table))

\* the three writes of a growth, each made only when every earlier one
\* succeeded: the new refcount blocks, the new table, the header
GrowWrites(S, meta_offset, blocks_clusters, table_clusters, table_offset, new_table) ==
    OnOk(OnOk(WriteNewBlocks(S, meta_offset, blocks_clusters,
                             table_clusters + blocks_clusters),
              LAMBDA T : WriteNewTable(T, table_offset, new_table)),
         LAMBDA T : WriteHeader(T, table_offset, table_clusters))

\* what a growth leaves in force when it stops: taken when growth begins and
\* when it ends
TableView(S) ==
    [table |-> S.refcount_table,
     size |-> S.refcount_table_size,
     offset |-> S.refcount_table_offset,
     hdr |-> S.hdr,
     disk_table |-> S.disk_tables[S.hdr.refcount_table_offset],
     blocks_written |->
        /\ \A i \in DOMAIN S.refcount_table :
               S.refcount_table[i] # 0 =>
                   ReftOffsetMask(S.refcount_table[i]) \in DOMAIN S.disk_blocks
        /\ \A i \in DOMAIN S.disk_tables[S.hdr.refcount_table_offset] :
               S.disk_tables[S.hdr.refcount_table_offset][i] # 0 =>
                   ReftOffsetMask(S.disk_tables[S.hdr.refcount_table_offset][i])
                       \in DOMAIN S.disk_blocks]

----------------------------------------------------------------------------
(* The allocator: alloc_clusters_noref, alloc_refcount_block,              *)
(* update_refcount                                                         *)

\* The retry loop of alloc_clusters_noref visits the clusters from
\* free_cluster_index upwards, one get_refcount each, and starts the run again
\* after every cluster in use: it ends behind the first nb_clusters
\* consecutive free clusters, or at the first get_refcount that fails.  The
\* loop is computed here over the set of visited clusters instead of cluster
\* by cluster.

\* the refcount table entry covering a cluster (0 beyond the table)
EntryOf(S, c) ==
    IF c \div refcount_block_size < S.refcount_table_size
    THEN S.refcount_table[c \div refcount_block_size] ELSE 0

\* get_refcount of cluster c reads a refcount block
ReadsBlock(S, c) ==
    EntryOf(S, c) # 0 /\ offset_into_cluster(EntryOf(S, c)) = 0

\* get_refcount of cluster c signals a corruption
Unaligned(S, c) ==
    EntryOf(S, c) # 0 /\ offset_into_cluster(EntryOf(S, c)) # 0

\* the counter get_refcount reads for cluster c
Counter(S, c) ==
    IF ~ReadsBlock(S, c) THEN 0
    ELSE (IF EntryOf(S, c) \in DOMAIN S.blocks
          THEN S.blocks[EntryOf(S, c)]
          ELSE DiskBlockAt(S, EntryOf(S, c)))[c % refcount_block_size]

\* the state after the get_refcount calls of the clusters in `visited` all
\* succeeded: their blocks are in the cache, every reference is given back
AfterGets(S, visited) ==
    LET reads == {c \in visited : ReadsBlock(S, c)}
        offs == {EntryOf(S, c) : c \in reads} \ DOMAIN S.blocks
        n == Cardinality(reads)
    IN  [S EXCEPT !.blocks = [o \in offs |-> DiskBlockAt(S, o)] @@ @,
                  !.cache_ops = @ + 2 * n,
                  !.ios = IF S.failKind = "cache_get" THEN @ + n ELSE @]

\* the scan without the restart of the run at a cluster in use: it counts
\* nb_clusters free clusters and takes the last nb_clusters visited
NorefScan_norestart(S, nb_clusters, i) ==
    LET first == S.free_cluster_index
        top == MAX(first, S.refcount_table_size * refcount_block_size)
                   + nb_clusters
        FreeIn(e) == Cardinality({c \in first..e : Counter(S, c) = 0})
        e == CHOOSE e \in first..top :
                 FreeIn(e) = nb_clusters
                     /\ \A e2 \in first..(e - 1) : FreeIn(e2) < nb_clusters
        S1 == AfterGets(S, first..e)
    IN  R([S1 EXCEPT !.free_cluster_index = e + 1],
          (e + 1 - nb_clusters) * cluster_size)

NorefScan(S, nb_clusters, i) ==
    LET first == S.free_cluster_index
        top == MAX(first, S.refcount_table_size * refcount_block_size)
        FreeRunAt(k) == \A c \in k..(k + nb_clusters - 1) : Counter(S, c) = 0
        k == CHOOSE k \in first..top :
                 FreeRunAt(k) /\ \A k2 \in first..(k - 1) : ~FreeRunAt(k2)
        visited == first..(k + nb_clusters - 1)
        \* the visited clusters whose get_refcount fails: an unaligned table
        \* entry, or the planned failure of a cache get
        nth(c) == S.ios + Cardinality({d \in first..c : ReadsBlock(S, d)})
        bad == {c \in visited :
                   \/ Unaligned(S, c)
                   \/ ReadsBlock(S, c) /\ S.failKind = "cache_get"
                                       /\ nth(c) = S.failAt}
    IN  IF bad = {}
        THEN LET S1 == AfterGets(S, visited)
             IN  R([S1 EXCEPT !.free_cluster_index = k + nb_clusters],
                   k * cluster_size)
        ELSE LET c == CHOOSE c \in bad : \A d \in bad : c <= d
                 S1 == AfterGets(S, first..(c - 1))
                 S2 == [S1 EXCEPT !.free_cluster_index = c + 1]
             IN  IF Unaligned(S, c) THEN R(SignalCorruption(S2), EIO)
                 ELSE R(Tick(S2, "cache_get"), EIO)

\* alloc_clusters_noref that leaves the queue of discards alone
alloc_clusters_noref_undrained(S, size) ==
    LET r == NorefScan(S, size_to_clusters(size), 0)
    IN  IF r.ret < 0 THEN r
        ELSE R(Log(r.s, "noref", r.ret, size_to_clusters(size)), r.ret)

\* alloc_clusters_noref: the regions queued for discard are handed on first
\* when discards are cached, then the free clusters are looked for
alloc_clusters_noref(S, size) ==
    LET S1 == IF S.cache_discards THEN ProcessDiscards(S, 0) ELSE S
        r == NorefScan(S1, size_to_clusters(size), 0)
    IN  IF r.ret < 0 THEN r
        ELSE R(Log(r.s, "noref", r.ret, size_to_clusters(size)), r.ret)

\* the test that takes two clusters of a block for clusters of different
\* blocks when the first has an odd index
in_same_refcount_block_even(offset_a, offset_b) ==
    /\ (offset_a \div (cluster_size * refcount_block_size))
           = (offset_b \div (cluster_size * refcount_block_size))
    /\ (offset_a \div cluster_size) % 2 = 0

in_same_refcount_block(offset_a, offset_b) ==
    (offset_a \div (cluster_size * refcount_block_size))
        = (offset_b \div (cluster_size * refcount_block_size))

RB(S, ret, rb) == [s |-> S, ret |-> ret, rb |-> rb]

\* a new block that is handed to the caller like a block that existed
HookedResult_success(S, new_block) == RB(S, 0, new_block)

\* what alloc_refcount_block returns once the block it allocated is in the
\* refcount table, in a free slot or in a grown table: the caller has to
\* restart, the block stays loaded
HookedResult(S, new_block) == RB(S, EAGAIN, new_block)

\* entering and leaving update_refcount: the nesting of the recursion
\* update_refcount -> alloc_refcount_block -> update_refcount
Enter(S) == [S EXCEPT !.level = @ + 1, !.max_level = MAX(@, S.level + 1)]
Leave(S) == [S EXCEPT !.level = @ - 1]

RECURSIVE update_refcount(_, _, _, _, _)
RECURSIVE UpdateLoop(_, _, _, _, _, _, _)
RECURSIVE alloc_refcount_block(_, _)
RECURSIVE GrowRefcountTable(_, _, _)
RECURSIVE GrowTable(_, _, _)
RECURSIVE InitNewBlock(_, _, _)

\* alloc_refcount_block from BLKDBG_REFTABLE_GROW on: the refcount table has
\* no slot for the block new_block that was made for cluster_index.
\* Returns [s, ret, rb].
GrowTable(S, cluster_index, new_block) ==
    LET refcount_table_index == cluster_index \div refcount_block_size
        blocks_used ==
            DIV_ROUND_UP(MAX(cluster_index + 1, (new_block \div cluster_size) + 1),
                         refcount_block_size)
        meta_offset == (blocks_used * refcount_block_size) * cluster_size
        old_table_offset == S.refcount_table_offset
        old_table_size == S.refcount_table_size
        stop(w) == RB(LogT(w.s, "grow_stop", w.ret, 0, TableView(w.s)), w.ret, NULL)
        \* load_refcount_block, then return -EAGAIN
        loaded(g) ==
            IF g.ret < 0 THEN RB(g.s, g.ret, NULL)
            ELSE HookedResult(Log(g.s, "block_hooked", new_block,
                                  Refcount(g.s, new_block \div cluster_size)),
                              new_block)
        \* qcow2_free_clusters of the old table: the result is only printed
        freed(f) == LogT(f.s, "free_old_table_done", old_table_offset, f.ret,
                         old_table_size * 8)
        grow(lay) ==
            LET table_size == lay.table_size
                blocks_clusters == lay.blocks_clusters
                table_clusters == size_to_clusters(table_size * 8)
                table_offset == meta_offset + blocks_clusters * cluster_size
                new_table == NewTable(S, table_size, blocks_used,
                                      blocks_clusters, meta_offset,
                                      refcount_table_index, new_block)
                \* and switch it in memory
                inforce(T) == [T EXCEPT !.refcount_table = new_table,
                                        !.refcount_table_size = table_size,
                                        !.refcount_table_offset = table_offset]
                meta_clusters ==
                    (meta_offset \div cluster_size)..
                        ((meta_offset \div cluster_size)
                             + table_clusters + blocks_clusters - 1)
                switched(T) ==
                    LogT(inforce(T),
                         "switch_table", table_offset, table_size,
                         [table |-> new_table,
                          old |-> TableView(S),
                          index |-> refcount_table_index,
                          blocks_used |-> blocks_used,
                          blocks_clusters |-> blocks_clusters,
                          meta_first |-> meta_offset \div cluster_size,
                          meta_count |-> table_clusters + blocks_clusters,
                          meta_refcounts |->
                              [c \in meta_clusters |-> Refcount(inforce(T), c)]])
                written(w) ==
                    IF w.ret < 0 THEN stop(w)
                    ELSE loaded(CacheGet(freed(update_refcount(
                             Log(switched(w.s), "free_old_table",
                                 old_table_offset, old_table_size * 8),
                             old_table_offset, old_table_size * 8, -1, "OTHER")),
                             new_block))
            IN  written(GrowWrites(S, meta_offset, blocks_clusters,
                                   table_clusters, table_offset, new_table))
    IN  IF blocks_used > QCOW_MAX_REFTABLE_SIZE \div 8
        THEN stop(R(S, EFBIG))
        ELSE grow(GrowthLayout(S, blocks_used,
                               next_refcount_table_size(S, blocks_used + 1)))

\* alloc_refcount_block from BLKDBG_REFTABLE_GROW on, with the record of
\* the table that is in force when the growth begins
GrowRefcountTable(S, cluster_index, new_block) ==
    GrowTable(LogT(S, "grow_begin", new_block, cluster_index, TableView(S)),
              cluster_index, new_block)

\* the initialisation that leaves the counter of a self-describing block 0
InitNewBlock_noself(S, new_block, cluster_index) ==
    LET got(e) == RB(e.s, e.ret, IF e.ret < 0 THEN NULL ELSE new_block)
        stopped(r) == IF r.ret < 0 THEN RB(r.s, r.ret, NULL)
                      ELSE got(CacheGetEmpty(r.s, new_block))
    IN  IF in_same_refcount_block(new_block, cluster_index * cluster_size)
        THEN got(CacheGetEmpty(S, new_block))
        ELSE stopped(OnOk(update_refcount(S, new_block, cluster_size, 1, "NEVER"),
                          LAMBDA T : FlushRefcountCache(T)))

\* The block new_block is initialised: zeroed with its own counter set to 1
\* when it describes itself, else counted through update_refcount and then
\* zeroed.  Returns [s, ret, rb].
InitNewBlock(S, new_block, cluster_index) ==
    LET block_index == (new_block \div cluster_size) % refcount_block_size
        self(e) == IF e.ret < 0 THEN RB(e.s, e.ret, NULL)
                   ELSE RB([e.s EXCEPT !.blocks[new_block][block_index] = 1],
                           0, new_block)
        other(e) == RB(e.s, e.ret, IF e.ret < 0 THEN NULL ELSE new_block)
        stopped(r) == IF r.ret < 0 THEN RB(r.s, r.ret, NULL)
                      ELSE other(CacheGetEmpty(r.s, new_block))
    IN  IF in_same_refcount_block(new_block, cluster_index * cluster_size)
        THEN self(CacheGetEmpty(S, new_block))
        ELSE stopped(OnOk(update_refcount(S, new_block, cluster_size, 1, "NEVER"),
                          LAMBDA T : FlushRefcountCache(T)))

\* returns [s, ret, rb]: rb is what *refcount_block holds on return
alloc_refcount_block(S, cluster_index) ==
    LET refcount_table_index == cluster_index \div refcount_block_size
        refcount_block_offset ==
            IF refcount_table_index < S.refcount_table_size
            THEN ReftOffsetMask(S.refcount_table[refcount_table_index])
            ELSE 0
        \* load_refcount_block
        load(ld) == RB(ld.s, ld.ret,
                       IF ld.ret < 0 THEN NULL ELSE refcount_block_offset)
        \* fail_block
        fail_block(S1, ret, rb) ==
            RB(IF rb # NULL THEN CachePut(S1) ELSE S1, ret, NULL)
        \* the block is hooked up and stays referenced by the caller
        hooked(w, new_block) ==
            IF w.ret < 0 THEN fail_block(w.s, w.ret, new_block)
            ELSE HookedResult(
                     Log([w.s EXCEPT !.refcount_table[refcount_table_index] =
                                         new_block],
                         "block_hooked", new_block,
                         Refcount([w.s EXCEPT !.refcount_table[refcount_table_index]
                                                  = new_block],
                                  new_block \div cluster_size)),
                     new_block)
        \* now the new refcount block needs to be written to disk
        flushed(f2, new_block) ==
            IF f2.ret < 0 THEN fail_block(f2.s, f2.ret, new_block)
            ELSE IF refcount_table_index < f2.s.refcount_table_size
            THEN hooked(WriteTableEntry(f2.s, refcount_table_index, new_block),
                        new_block)
            ELSE GrowRefcountTable(CachePut(f2.s), cluster_index, new_block)
        initialised(init, new_block) ==
            IF init.ret < 0 THEN fail_block(init.s, init.ret, init.rb)
            ELSE flushed(FlushRefcountCache(MarkDirty(init.s, new_block)),
                         new_block)
        \* allocate the refcount block itself and mark it as used
        allocated(nr) ==
            IF nr.ret < 0 THEN RB(nr.s, nr.ret, NULL)
            ELSE initialised(InitNewBlock(LogT(nr.s, "new_block", nr.ret,
                                               cluster_index, Snapshot(nr.s)),
                                          nr.ret, cluster_index),
                             nr.ret)
    IN  IF refcount_block_offset # 0
        THEN IF offset_into_cluster(refcount_block_offset) # 0
             THEN RB(SignalCorruption(S), EIO, NULL)
             ELSE load(CacheGet(S, refcount_block_offset))
        \* we write to the refcount table, so we might depend on L2 tables
        ELSE allocated(OnOk(FlushL2Cache(S),
                            LAMBDA T : alloc_clusters_noref(T, cluster_size)))

\* update_refcount leaving free_cluster_index alone when a counter reaches 0
FreeHint_kept(S, cluster_index, refcount) == S

\* update_refcount's lowering of free_cluster_index to a cluster whose
\* counter reaches 0
FreeHint(S, cluster_index, refcount) ==
    IF refcount = 0 /\ cluster_index < S.free_cluster_index
    THEN [S EXCEPT !.free_cluster_index = cluster_index]
    ELSE S

\* the record of the end of a loop iteration of update_refcount that set a
\* counter to 0: the cluster, free_cluster_index as it is then, the type
ZeroedRecord(S, cluster_index, refcount, type) ==
    IF refcount = 0
    THEN LogT(S, "zeroed", cluster_index, S.free_cluster_index, type)
    ELSE S

\* the loop of update_refcount without the check of the new count against
\* 0 and 0xffff
UpdateLoop_unchecked(S, cluster_offset, last_offset, rb, old_table_index, addend, type) ==
    LET out(S1, ret, rb1) ==
            [s |-> S1, ret |-> ret, rb |-> rb1, cluster_offset |-> cluster_offset]
        cluster_index == cluster_offset \div cluster_size
        table_index == cluster_index \div refcount_block_size
        block_index == cluster_index % refcount_block_size
        counted(S1, a_rb, refcount) ==
            LET S2 == FreeHint(S1, cluster_index, refcount)
                S3 == LogT([S2 EXCEPT !.blocks[a_rb][block_index] = refcount],
                           "set_refcount", cluster_index, refcount, S2.level)
            IN  UpdateLoop(ZeroedRecord(IF refcount = 0 /\ S1.discard_passthrough[type]
                                   THEN update_refcount_discard(S3, cluster_offset,
                                                                cluster_size)
                                   ELSE S3,
                                   cluster_index, refcount, type),
                           cluster_offset + cluster_size, last_offset, a_rb,
                           table_index, addend, type)
        \* a is the refcount block of the cluster, loaded or allocated
        step(a) ==
            IF a.ret < 0 THEN out(a.s, a.ret, a.rb)
            ELSE counted(MarkDirty(a.s, a.rb), a.rb,
                         a.s.blocks[a.rb][block_index] + addend)
    IN  IF cluster_offset > last_offset THEN out(S, 0, rb)
        ELSE step(IF table_index # old_table_index
                  THEN alloc_refcount_block(IF rb # NULL THEN CachePut(S) ELSE S,
                                            cluster_index)
                  ELSE RB(S, 0, rb))

\* the for loop of update_refcount; rb is refcount_block.  Returns
\* [s, ret, rb, cluster_offset].
UpdateLoop(S, cluster_offset, last_offset, rb, old_table_index, addend, type) ==
    LET out(S1, ret, rb1) ==
            [s |-> S1, ret |-> ret, rb |-> rb1, cluster_offset |-> cluster_offset]
        cluster_index == cluster_offset \div cluster_size
        table_index == cluster_index \div refcount_block_size
        block_index == cluster_index % refcount_block_size
        counted(S1, a_rb, refcount) ==
            IF refcount < 0 \/ refcount > REFCOUNT_MAX THEN out(S1, EINVAL, a_rb)
            ELSE
            LET S2 == FreeHint(S1, cluster_index, refcount)
                S3 == LogT([S2 EXCEPT !.blocks[a_rb][block_index] = refcount],
                           "set_refcount", cluster_index, refcount, S2.level)
            IN  UpdateLoop(ZeroedRecord(IF refcount = 0 /\ S1.discard_passthrough[type]
                                   THEN update_refcount_discard(S3, cluster_offset,
                                                                cluster_size)
                                   ELSE S3,
                                   cluster_index, refcount, type),
                           cluster_offset + cluster_size, last_offset, a_rb,
                           table_index, addend, type)
        \* a is the refcount block of the cluster, loaded or allocated
        step(a) ==
            IF a.ret < 0 THEN out(a.s, a.ret, a.rb)
            ELSE counted(MarkDirty(a.s, a.rb), a.rb,
                         a.s.blocks[a.rb][block_index] + addend)
    IN  IF cluster_offset > last_offset THEN out(S, 0, rb)
        ELSE step(IF table_index # old_table_index
                  THEN alloc_refcount_block(IF rb # NULL THEN CachePut(S) ELSE S,
                                            cluster_index)
                  ELSE RB(S, 0, rb))

\* update_refcount keeping the last block it changed
PutLast_kept(S, rb) == S

\* update_refcount's put of the last block it changed ("write last changed
\* block to disk")
PutLast(S, rb) == IF rb # NULL THEN CachePut(S) ELSE S

\* the undo that takes in the cluster at which the update stopped
UndoLength_through(offset, cluster_offset) ==
    cluster_offset + cluster_size - offset

\* the length of the range that update_refcount undoes when it stopped at
\* cluster_offset
UndoLength(offset, cluster_offset) == cluster_offset - offset

\* update_refcount that registers no dependency
UpdateDependency_none(S, addend) == S

\* update_refcount before its loop: a decrement follows the removal of a
\* mapping entry, so the L2 tables are written before the refcount blocks
UpdateDependency(S, addend) ==
    IF addend < 0 THEN SetDependency(S, "refcount", "l2") ELSE S

update_refcount(S, offset, length, addend, type) ==
    LET entered == Enter(LogT(S, "update_refcount", offset, addend,
                              S.level + 1))
        \* the counters of the range when the call began and as the undo
        \* left them
        counters(T) == [c \in ClustersOf(offset, length) |-> Refcount(T, c)]
        undone(dummy, ret) ==
            R(LogT(dummy.s, "undo_done", offset, dummy.ret,
                   [level |-> S.level + 1, length |-> length,
                    before |-> counters(S), after |-> counters(dummy.s)]),
              ret)
        \* fail: the discards are processed, the last block is put, and a
        \* failed loop is undone
        left(S3, ret, cluster_offset) ==
            IF ret < 0
            THEN undone(update_refcount(
                            Leave(LogT(S3, "undo", offset,
                                       UndoLength(offset, cluster_offset),
                                       [level |-> S.level + 1,
                                        addend |-> -addend, ret |-> ret])),
                            offset, UndoLength(offset, cluster_offset),
                            -addend, "NEVER"),
                        ret)
            ELSE R(Leave(S3), 0)
        put(S2, lp) ==
            left(PutLast(S2, lp.rb), lp.ret, lp.cluster_offset)
        fail(lp) ==
            put(IF ~lp.s.cache_discards THEN ProcessDiscards(lp.s, lp.ret)
                ELSE lp.s, lp)
    IN  IF length < 0 THEN R(S, EINVAL)
        ELSE IF length = 0 THEN R(S, 0)
        ELSE fail(UpdateLoop(UpdateDependency(entered, addend),
                             start_of_cluster(offset),
                             start_of_cluster(offset + length - 1),
                             NULL, -1, addend, type))

----------------------------------------------------------------------------
(* The public operations *)

\* qcow2_alloc_clusters without the loop: -EAGAIN ends the call like a
\* success
qcow2_alloc_clusters_noretry(S, size) ==
    LET counted(u, offset) ==
            IF u.ret < 0 /\ u.ret # EAGAIN THEN u ELSE R(u.s, offset)
        found(n) ==
            IF n.ret < 0 THEN n
            ELSE counted(update_refcount(n.s, n.ret, size, 1, "NEVER"), n.ret)
    IN  found(alloc_clusters_noref(S, size))

\* a pass through the loop of qcow2_alloc_clusters that always asks for
\* another one
AllocIteration_again(S, size) == [s |-> S, ret |-> EAGAIN, offset |-> 0]

\* one pass through the do-while loop of qcow2_alloc_clusters: ret is what
\* alloc_clusters_noref returned if that is an error, and what
\* update_refcount returned otherwise.  Returns [s, ret, offset].
AllocIteration(S, size) ==
    LET updated(u, offset) == [s |-> u.s, ret |-> u.ret, offset |-> offset]
        found(n) ==
            IF n.ret < 0 THEN [s |-> n.s, ret |-> n.ret, offset |-> n.ret]
            ELSE updated(update_refcount(n.s, n.ret, size, 1, "NEVER"), n.ret)
    IN  found(alloc_clusters_noref(S, size))

\* qcow2_alloc_clusters: the do-while loop on -EAGAIN.  Returns [s, ret].
RECURSIVE qcow2_alloc_clusters(_, _)
qcow2_alloc_clusters(S, size) ==
    LET counted(u, offset) ==
            IF u.ret = EAGAIN
            THEN qcow2_alloc_clusters(Log(u.s, "restart", offset, 0), size)
            ELSE IF u.ret < 0 THEN u
            ELSE R(u.s, offset)
        found(n) ==
            IF n.ret < 0 THEN n
            ELSE counted(update_refcount(n.s, n.ret, size, 1, "NEVER"), n.ret)
    IN  found(alloc_clusters_noref(S, size))

\* the scan that takes every cluster asked for as free
FreeRun_all(S, cluster_index, nb_clusters, i) ==
    [s |-> S, ret |-> 0, i |-> nb_clusters]

RECURSIVE FreeRun(_, _, _, _)
\* the scan of qcow2_alloc_clusters_at: how many clusters are free from
\* cluster_index on, at most nb_clusters.  Returns [s, ret, i].
FreeRun(S, cluster_index, nb_clusters, i) ==
    LET got(g) ==
            IF g.ret < 0 THEN [s |-> g.s, ret |-> g.ret, i |-> i]
            ELSE IF g.ret # 0 THEN [s |-> g.s, ret |-> 0, i |-> i]
            ELSE FreeRun(g.s, cluster_index + 1, nb_clusters, i + 1)
    IN  IF i >= nb_clusters THEN [s |-> S, ret |-> 0, i |-> i]
        ELSE got(GetRefcount(S, cluster_index))

RECURSIVE RetryUpdate(_, _, _)
\* the refcount update repeated on -EAGAIN without a new scan
RetryUpdate(S, offset, i) ==
    LET counted(u) ==
            IF u.ret = EAGAIN
            THEN RetryUpdate(Log(u.s, "restart", offset, 0), offset, i)
            ELSE IF u.ret < 0 THEN u
            ELSE R(u.s, i)
    IN  counted(update_refcount(S, offset, i * cluster_size, 1, "NEVER"))

\* qcow2_alloc_clusters_at whose retry loop goes around the update only
qcow2_alloc_clusters_at_norescan(S, offset, nb_clusters) ==
    LET scanned(f) ==
            IF f.ret < 0 THEN R(f.s, f.ret)
            ELSE RetryUpdate(f.s, offset, f.i)
    IN  IF nb_clusters = 0 THEN R(S, 0)
        ELSE scanned(FreeRun(S, offset \div cluster_size, nb_clusters, 0))

RECURSIVE qcow2_alloc_clusters_at(_, _, _)
qcow2_alloc_clusters_at(S, offset, nb_clusters) ==
    LET counted(u, i) ==
            IF u.ret = EAGAIN
            THEN qcow2_alloc_clusters_at(Log(u.s, "restart", offset, 0),
                                         offset, nb_clusters)
            ELSE IF u.ret < 0 THEN u
            ELSE R(u.s, i)
        scanned(f) ==
            IF f.ret < 0 THEN R(f.s, f.ret)
            ELSE counted(update_refcount(f.s, offset, f.i * cluster_size, 1,
                                         "NEVER"), f.i)
    IN  IF nb_clusters = 0 THEN R(S, 0)
        ELSE scanned(FreeRun(S, offset \div cluster_size, nb_clusters, 0))

qcow2_update_cluster_refcount(S, cluster_index, addend, type) ==
    OnOk(update_refcount(S, cluster_index * cluster_size, 1, addend, type),
         LAMBDA T : GetRefcount(T, cluster_index))

\* qcow2_free_clusters that frees one cluster more than it was asked to
qcow2_free_clusters_extra(S, offset, size, type) ==
    update_refcount(S, offset, size + cluster_size, -1, type)

\* qcow2_free_clusters returns nothing; ret is what it prints on failure
qcow2_free_clusters(S, offset, size, type) ==
    update_refcount(S, offset, size, -1, type)

----------------------------------------------------------------------------
(* Images *)

\* discard_passthrough as qcow2_open sets it: never for NEVER, always for
\* ALWAYS, for snapshots by default, for the other two as the options say
DiscardPassthrough(request, other) ==
    [ty \in DiscardTypes |->
        CASE ty = "NEVER" -> FALSE
          [] ty = "ALWAYS" -> TRUE
          [] ty = "REQUEST" -> request
          [] ty = "SNAPSHOT" -> TRUE
          [] ty = "OTHER" -> other]

\* an image as it is after open: table is its refcount table, kept in the
\* cluster at table_offset; disk_blocks are its refcount blocks
Image(table, table_offset, disk_blocks, passthrough) ==
    [refcount_table |-> table,
     refcount_table_size |-> Cardinality(DOMAIN table),
     refcount_table_offset |-> table_offset,
     free_cluster_index |-> 0,
     blocks |-> <<>>,
     dirty |-> {},
     disk_blocks |-> disk_blocks,
     disk_tables |-> (table_offset :> table),
     hdr |-> [refcount_table_offset |-> table_offset,
              refcount_table_clusters |->
                  Cardinality(DOMAIN table) \div reftable_entries_per_cluster],
     discards |-> <<>>,
     discarded |-> <<>>,
     cache_discards |-> FALSE,
     discard_passthrough |-> passthrough,
     deps |-> {},
     corrupt |-> FALSE,
     assert_failed |-> FALSE,
     ios |-> 0, failKind |-> "none", failAt |-> 0, log |-> <<>>,
     refs |-> 0, cache_ops |-> 0, level |-> 0, max_level |-> 0]

\* a consistent image of `used` clusters: the header in cluster 0, a refcount
\* table of one cluster in cluster 1, the first refcount block in cluster 2,
\* then data clusters, each with refcount 1
ConsistentImage(used, passthrough) ==
    Image([i \in 0..(reftable_entries_per_cluster - 1) |->
              IF i = 0 THEN 2 * cluster_size ELSE 0],
          cluster_size,
          (2 * cluster_size) :>
              [b \in 0..(refcount_block_size - 1) |-> IF b < used THEN 1 ELSE 0],
          passthrough)

\* the image of the scenario "an empty image whose refcount table is itself
\* empty": a refcount table of one cluster that holds no refcount block
EmptyImage(passthrough) ==
    Image([i \in 0..(reftable_entries_per_cluster - 1) |-> 0],
          cluster_size, <<>>, passthrough)

\* the clusters that hold the header, the refcount table and refcount blocks
MetaClusters(S) ==
    {0}
    \cup ClustersOf(S.refcount_table_offset, S.refcount_table_size * 8)
    \cup {ReftOffsetMask(S.refcount_table[i]) \div cluster_size :
             i \in {j \in DOMAIN S.refcount_table : S.refcount_table[j] # 0}}

\* a consistent image of 8 clusters whose data cluster 3 is referenced
\* REFCOUNT_MAX times (by the active mapping and by snapshots)
SaturatedImage(passthrough) ==
    [ConsistentImage(8, passthrough) EXCEPT
        !.disk_blocks[2 * cluster_size][3] = REFCOUNT_MAX]

\* an image of 8 clusters whose refcount table entry 1 was overwritten with
\* `entry`; cluster 3 holds the refcount block the entry pointed to
DamagedImage(entry, passthrough) ==
    LET I == ConsistentImage(8, passthrough)
    IN  [I EXCEPT !.refcount_table[1] = entry,
                  !.disk_tables[cluster_size][1] = entry,
                  !.disk_blocks = (3 * cluster_size :> ZeroBlock) @@ @]

\* the overwritten entries: the block's offset with a reserved bit set, the
\* block's offset with an address bit below the cluster alignment set, and a
\* reserved bit alone
DamagedEntries ==
    {3 * cluster_size + 1, 3 * cluster_size + cluster_size \div 2, 1}

\* every cluster the refcount table describes
Described(S) == 0..(S.refcount_table_size * refcount_block_size - 1)

----------------------------------------------------------------------------
(* The metadata overlap check *)

\* QCOW_OFLAG_COPIED, the flag of an L1 or L2 entry whose cluster has
\* refcount 1 (scaled: a bit above every offset of the image)
BDRV_SECTOR_SIZE == cluster_size \div 4
QCOW_OFLAG_COPIED == 2 ^ 12

\* the entry of a compressed cluster: QCOW_OFLAG_COMPRESSED, the offset of
\* the compressed data (cluster_offset_mask) and, from csize_shift on, the
\* number of further sectors it takes.  The fields are laid out above the
\* offsets of the scaled image; a sector is a quarter of a cluster.
QCOW_OFLAG_COMPRESSED == 2 * QCOW_OFLAG_COPIED
csize_shift == 4 * QCOW_OFLAG_COPIED    \* as a factor: 1 << s->csize_shift
csize_mask == 2 * (cluster_size \div BDRV_SECTOR_SIZE) - 1
cluster_offset_mask(entry) == entry % QCOW_OFLAG_COPIED
nb_csectors(entry) == ((entry \div csize_shift) % (csize_mask + 1)) + 1

\* entries of an L2 table
l2_size == cluster_size \div 8

\* L1E_OFFSET_MASK and L2E_OFFSET_MASK clear the flags and the reserved low
\* bits of an entry
L1eOffsetMask(entry) == ReftOffsetMask(entry % QCOW_OFLAG_COPIED)
L2eOffsetMask(entry) == ReftOffsetMask(entry % QCOW_OFLAG_COPIED)

\* the metadata sections, in the order of their bits
OlKinds ==
    <<"MAIN_HEADER", "ACTIVE_L1", "ACTIVE_L2", "REFCOUNT_TABLE",
      "REFCOUNT_BLOCK", "SNAPSHOT_TABLE", "INACTIVE_L1", "INACTIVE_L2">>

OlKindSet == {OlKinds[i] : i \in DOMAIN OlKinds}

\* the QCow2MetadataOverlap value of a section: 1 << bit number
QCOW2_OL(kind) == 2 ^ ((CHOOSE i \in DOMAIN OlKinds : OlKinds[i] = kind) - 1)

ranges_overlap(first1, len1, first2, len2) ==
    ~(first2 + len2 - 1 < first1 \/ first1 + len1 - 1 < first2)

align_offset(offset, n) == ((offset + n - 1) \div n) * n

\* a mapped image: the active L1 table with one L2 table and one data
\* cluster and, with a snapshot, the snapshot table, the snapshot's L1 table
\* and its L2 table, which shares the data cluster.  Every cluster has the
\* refcount that the references to it add up to.
\*   0 header, 1 refcount table, 2 and 3 refcount blocks, 4 active L1,
\*   5 active L2, 6 data, 7 snapshot table, 8 snapshot L1, 9 snapshot L2
MappedImage(snap, overlap_check, passthrough) ==
    LET used == IF snap THEN 10 ELSE 7
        count(c) == IF c >= used THEN 0
                    ELSE IF c = 6 /\ snap THEN 2 ELSE 1
        copied(offset, c) ==
            IF count(c) = 1 THEN offset + QCOW_OFLAG_COPIED ELSE offset
        table == [i \in 0..(reftable_entries_per_cluster - 1) |->
                     IF i < 2 THEN (2 + i) * cluster_size ELSE 0]
        blocks == [o \in {2 * cluster_size, 3 * cluster_size} |->
                      [b \in 0..(refcount_block_size - 1) |->
                          count((o \div cluster_size - 2) * refcount_block_size
                                    + b)]]
    IN  [overlap_check |-> overlap_check,
         l1_table_offset |-> 4 * cluster_size,
         l1_size |-> 2,
         l1_table |-> <<copied(5 * cluster_size, 5), 0>>,
         snapshots |-> IF snap
                       THEN <<[l1_table_offset |-> 8 * cluster_size,
                               l1_size |-> 1]>>
                       ELSE <<>>,
         snapshots_offset |-> IF snap THEN 7 * cluster_size ELSE 0,
         snapshots_size |-> IF snap THEN 10 ELSE 0,
         disk_l1 |-> (4 * cluster_size :> <<copied(5 * cluster_size, 5), 0>>)
                     @@ (8 * cluster_size :> <<copied(9 * cluster_size, 9)>>),
         disk_l2 |-> [o \in {5 * cluster_size, 9 * cluster_size} |->
                         [i \in 1..l2_size |->
                             IF i = 1 /\ (o = 5 * cluster_size \/ snap)
                             THEN copied(6 * cluster_size, 6) ELSE 0]],
         file_clusters |-> used]
        @@ Image(table, cluster_size, blocks, passthrough)

RECURSIVE InactiveL2Scan(_, _, _, _)
\* the loop over the snapshots of the QCOW2_OL_INACTIVE_L2 check, from
\* snapshot i on: each L1 table is read from the file
InactiveL2Scan(S, i, offset, size) ==
    IF i > Len(S.snapshots) THEN R(S, 0)
    ELSE IF IoFails(S, "read_l1") THEN R(Tick(S, "read_l1"), EIO)
    ELSE LET l1_ofs == S.snapshots[i].l1_table_offset
             l1_sz == S.snapshots[i].l1_size
             l1 == S.disk_l1[l1_ofs]
             hit == \E j \in 1..l1_sz :
                        /\ L1eOffsetMask(l1[j]) # 0
                        /\ ranges_overlap(offset, size, L1eOffsetMask(l1[j]),
                                          cluster_size)
         IN  IF hit THEN R(Tick(S, "read_l1"), QCOW2_OL("INACTIVE_L2"))
             ELSE InactiveL2Scan(Tick(S, "read_l1"), i + 1, offset, size)

\* the sections without the refcount table
CheckOrder_notable ==
    <<"MAIN_HEADER", "ACTIVE_L1", "SNAPSHOT_TABLE", "INACTIVE_L1",
      "ACTIVE_L2", "REFCOUNT_BLOCK", "INACTIVE_L2">>

\* the sections in the order in which qcow2_check_metadata_overlap tests them
CheckOrder ==
    <<"MAIN_HEADER", "ACTIVE_L1", "REFCOUNT_TABLE", "SNAPSHOT_TABLE",
      "INACTIVE_L1", "ACTIVE_L2", "REFCOUNT_BLOCK", "INACTIVE_L2">>

\* the test of one section that needs no I/O: offset is the offset asked
\* about, [aoffset, aoffset + asize) the range aligned to cluster boundaries
SectionOverlaps(S, kind, offset, aoffset, asize) ==
    LET overlaps_with(ofs, sz) == ranges_overlap(aoffset, asize, ofs, sz)
    IN  CASE kind = "MAIN_HEADER" -> offset < cluster_size
          [] kind = "ACTIVE_L1" ->
                 S.l1_size # 0 /\ overlaps_with(S.l1_table_offset, S.l1_size * 8)
          [] kind = "REFCOUNT_TABLE" ->
                 /\ S.refcount_table_size # 0
                 /\ overlaps_with(S.refcount_table_offset,
                                  S.refcount_table_size * 8)
          [] kind = "SNAPSHOT_TABLE" ->
                 /\ S.snapshots_size # 0
                 /\ overlaps_with(S.snapshots_offset, S.snapshots_size)
          [] kind = "INACTIVE_L1" ->
                 \E i \in DOMAIN S.snapshots :
                     /\ S.snapshots[i].l1_size # 0
                     /\ overlaps_with(S.snapshots[i].l1_table_offset,
                                      S.snapshots[i].l1_size * 8)
          [] kind = "ACTIVE_L2" ->
                 \E i \in 1..S.l1_size :
                     /\ L1eOffsetMask(S.l1_table[i]) # 0
                     /\ overlaps_with(L1eOffsetMask(S.l1_table[i]), cluster_size)
          [] kind = "REFCOUNT_BLOCK" ->
                 \E i \in 0..(S.refcount_table_size - 1) :
                     /\ ReftOffsetMask(S.refcount_table[i]) # 0
                     /\ overlaps_with(ReftOffsetMask(S.refcount_table[i]),
                                      cluster_size)

RECURSIVE OverlapFrom(_, _, _, _, _, _)
\* the tests of qcow2_check_metadata_overlap from the k-th on: chk is
\* s->overlap_check & ~ign
OverlapFrom(S, chk, k, offset, aoffset, asize) ==
    LET read(r) == IF r.ret # 0 THEN r
                   ELSE OverlapFrom(r.s, chk, k + 1, offset, aoffset, asize)
    IN  IF k > Len(CheckOrder) THEN R(S, 0)
        ELSE IF CheckOrder[k] \notin chk
             THEN OverlapFrom(S, chk, k + 1, offset, aoffset, asize)
        ELSE IF CheckOrder[k] = "INACTIVE_L2"
             THEN read(InactiveL2Scan(S, 1, aoffset, asize))
        ELSE IF SectionOverlaps(S, CheckOrder[k], offset, aoffset, asize)
             THEN R(S, QCOW2_OL(CheckOrder[k]))
        ELSE OverlapFrom(S, chk, k + 1, offset, aoffset, asize)

\* qcow2_check_metadata_overlap that makes every check of s->overlap_check
qcow2_check_metadata_overlap_noignore(S, ign, offset, size) ==
    IF size = 0 THEN R(S, 0)
    ELSE OverlapFrom(S, S.overlap_check, 1, offset, start_of_cluster(offset),
                     align_offset(offset_into_cluster(offset) + size,
                                  cluster_size))

\* ign and s->overlap_check are sets of sections
qcow2_check_metadata_overlap(S, ign, offset, size) ==
    IF size = 0 THEN R(S, 0)
    ELSE OverlapFrom(S, S.overlap_check \ ign, 1, offset,
                     start_of_cluster(offset),
                     align_offset(offset_into_cluster(offset) + size,
                                  cluster_size))

\* qcow2_pre_write_overlap_check that treats a failed check like an overlap
qcow2_pre_write_overlap_check_strict(S, ign, offset, size) ==
    LET checked(r) == IF r.ret # 0 THEN R(SignalCorruption(r.s), EIO)
                      ELSE R(r.s, 0)
    IN  checked(qcow2_check_metadata_overlap(S, ign, offset, size))

qcow2_pre_write_overlap_check(S, ign, offset, size) ==
    LET checked(r) == IF r.ret < 0 THEN r
                      ELSE IF r.ret > 0 THEN R(SignalCorruption(r.s), EIO)
                      ELSE R(r.s, 0)
    IN  checked(qcow2_check_metadata_overlap(S, ign, offset, size))

----------------------------------------------------------------------------
(* The consistency check.  A check carries K: the image s, the result res, *)
(* the in-memory refcount table rt of nb clusters, the rebuild flag and    *)
(* the return value ret.  Memory allocations succeed; the images hold      *)
(* neither compressed nor zero clusters.                                   *)

\* BdrvCheckResult as bdrv_check hands it in
ZeroResult ==
    [corruptions |-> 0, leaks |-> 0, check_errors |-> 0,
     corruptions_fixed |-> 0, leaks_fixed |-> 0, image_end_offset |-> 0,
     allocated_clusters |-> 0, fragmented_clusters |-> 0]

\* the modes of a check: the bits of BdrvCheckMode that are set
FixModes == SUBSET {"LEAKS", "ERRORS"}

Count(K, counter) == [K EXCEPT !.res[counter] = @ + 1]
Failed(K, ret) == [K EXCEPT !.ret = ret]

\* an I/O call of the check of the given kind: made is what follows a
\* successful call, a failed one counts a check error when counted is set
CheckIo(K, kind, counted, made(_)) ==
    IF IoFails(K.s, kind)
    THEN Failed(IF counted
                THEN Count([K EXCEPT !.s = Tick(@, kind)], "check_errors")
                ELSE [K EXCEPT !.s = Tick(@, kind)], EIO)
    ELSE made([K EXCEPT !.s = Tick(@, kind)])

\* an L1 or L2 table as a read of the image file returns it
DiskL1At(S, off, size) ==
    [i \in 1..size |->
        IF off \in DOMAIN S.disk_l1 /\ i \in DOMAIN S.disk_l1[off]
        THEN S.disk_l1[off][i] ELSE 0]
DiskL2At(S, off) ==
    IF off \in DOMAIN S.disk_l2 THEN S.disk_l2[off]
    ELSE [i \in 1..l2_size |-> 0]

HasCopied(entry) == (entry \div QCOW_OFLAG_COPIED) % 2 = 1

\* qcow2_get_cluster_type on an entry without QCOW_OFLAG_ZERO
qcow2_get_cluster_type(l2_entry) ==
    IF (l2_entry \div QCOW_OFLAG_COMPRESSED) % 2 = 1 THEN "COMPRESSED"
    ELSE IF L2eOffsetMask(l2_entry) = 0 THEN "UNALLOCATED" ELSE "NORMAL"

RECURSIVE IncLoop(_, _, _)
\* the loop of inc_refcounts over the clusters k..last_k: the table grows to
\* hold cluster k, the 16 bit counter wraps
IncLoop(K, k, last_k) ==
    LET grown == IF k >= K.nb
                 THEN [K EXCEPT !.nb = k + 1,
                                !.rt = [c \in 0..k |->
                                           IF c < K.nb THEN K.rt[c] ELSE 0]]
                 ELSE K
        n == (grown.rt[k] + 1) % (REFCOUNT_MAX + 1)
        counted == [grown EXCEPT !.rt[k] = n]
    IN  IF k > last_k THEN K
        ELSE IncLoop(IF n = 0 THEN Count(counted, "corruptions") ELSE counted,
                     k + 1, last_k)

inc_refcounts(K, offset, size) ==
    IF size <= 0 THEN K
    ELSE IncLoop(K, start_of_cluster(offset) \div cluster_size,
                 start_of_cluster(offset + size - 1) \div cluster_size)

RECURSIVE L2Loop(_, _, _, _, _)
\* the loop of check_refcounts_l2 over the entries i.. of the table read
L2Loop(K, l2_table, i, next_contiguous_offset, frag) ==
    LET l2_entry == l2_table[i]
        offset == L2eOffsetMask(l2_entry)
        info == IF frag
                THEN IF next_contiguous_offset # 0
                        /\ offset # next_contiguous_offset
                     THEN Count(Count(K, "allocated_clusters"),
                                "fragmented_clusters")
                     ELSE Count(K, "allocated_clusters")
                ELSE K
        used == inc_refcounts(info, offset, cluster_size)
    IN  IF i > l2_size THEN K
        ELSE IF qcow2_get_cluster_type(l2_entry) = "UNALLOCATED"
             THEN L2Loop(K, l2_table, i + 1, next_contiguous_offset, frag)
        ELSE L2Loop(IF offset_into_cluster(offset) # 0
                    THEN Count(used, "corruptions") ELSE used,
                    l2_table, i + 1,
                    IF frag THEN offset + cluster_size
                    ELSE next_contiguous_offset,
                    frag)

\* frag: CHECK_FRAG_INFO is set in flags
check_refcounts_l2(K, l2_offset, frag) ==
    LET read(K1) == L2Loop(K1, DiskL2At(K1.s, l2_offset), 1, 0, frag)
    IN  CheckIo(K, "read_l2", TRUE, read)

RECURSIVE L1Loop(_, _, _, _)
\* the loop of check_refcounts_l1 over the entries i.. of the table read
L1Loop(K, l1_table, i, frag) ==
    LET l2_offset == L1eOffsetMask(l1_table[i])
        used == inc_refcounts(K, l2_offset, cluster_size)
        next(K1) == IF K1.ret < 0 THEN K1
                    ELSE L1Loop(K1, l1_table, i + 1, frag)
    IN  IF i > Len(l1_table) THEN K
        ELSE IF l1_table[i] = 0 THEN L1Loop(K, l1_table, i + 1, frag)
        ELSE next(check_refcounts_l2(
                      IF offset_into_cluster(l2_offset) # 0
                      THEN Count(used, "corruptions") ELSE used,
                      l2_offset, frag))

check_refcounts_l1(K, l1_table_offset, l1_size, frag) ==
    LET read(K1) == L1Loop(K1, DiskL1At(K1.s, l1_table_offset, l1_size), 1,
                           frag)
        marked(K1) == IF l1_size > 0 THEN CheckIo(K1, "read_l1", TRUE, read)
                      ELSE K1
    IN  marked(inc_refcounts(K, l1_table_offset, l1_size * 8))

RECURSIVE RefblockLoop(_, _, _)
\* the loop of check_refblocks over the refcount table entries i..
RefblockLoop(K, fix, i) ==
    LET offset == K.s.refcount_table[i]
        cluster == offset \div cluster_size
        next(K1) == RefblockLoop(K1, fix, i + 1)
        \* bdrv_truncate made the file hold the block's cluster
        resized(K1) ==
            inc_refcounts(
                Count([K1 EXCEPT !.s.file_clusters = cluster + 1,
                                 !.nb = cluster + 1,
                                 !.rt = [c \in 0..cluster |->
                                            IF c < K1.nb THEN K1.rt[c] ELSE 0]],
                      "corruptions_fixed"),
                offset, cluster_size)
        resize_fail(K1) == [Count(K1, "corruptions") EXCEPT !.rebuild = TRUE]
        truncated(K1) == IF K1.ret < 0 THEN resize_fail(Failed(K1, K.ret))
                         ELSE K1
        accounted(K1) == IF K1.rt[cluster] # 1
                         THEN [Count(K1, "corruptions") EXCEPT !.rebuild = TRUE]
                         ELSE K1
    IN  IF i >= K.s.refcount_table_size THEN Failed(K, 0)
        ELSE IF offset_into_cluster(offset) # 0
             THEN next([Count(K, "corruptions") EXCEPT !.rebuild = TRUE])
        ELSE IF cluster >= K.nb
             THEN IF "ERRORS" \in fix
                  THEN next(truncated(CheckIo(K, "truncate", FALSE, resized)))
                  ELSE next(Count(K, "corruptions"))
        ELSE IF offset # 0
             THEN next(accounted(inc_refcounts(K, offset, cluster_size)))
        ELSE next(K)

check_refblocks(K, fix) == RefblockLoop(K, fix, 0)

RECURSIVE SnapshotLoop(_, _)
\* the loop of calculate_refcounts over the snapshots i..
SnapshotLoop(K, i) ==
    LET next(K1) == IF K1.ret < 0 THEN K1 ELSE SnapshotLoop(K1, i + 1)
    IN  IF i > Len(K.s.snapshots) THEN K
        ELSE next(check_refcounts_l1(K, K.s.snapshots[i].l1_table_offset,
                                     K.s.snapshots[i].l1_size, FALSE))

calculate_refcounts(K, fix) ==
    LET refcount_data(K1) ==
            check_refblocks(
                inc_refcounts(
                    inc_refcounts(K1, K1.s.snapshots_offset,
                                  K1.s.snapshots_size),
                    K1.s.refcount_table_offset, K1.s.refcount_table_size * 8),
                fix)
        snapshots(K1) == IF K1.ret < 0 THEN K1 ELSE refcount_data(K1)
        current_l1(K1) == IF K1.ret < 0 THEN K1
                          ELSE snapshots(SnapshotLoop(K1, 1))
    IN  current_l1(check_refcounts_l1(inc_refcounts(K, 0, cluster_size),
                                      K.s.l1_table_offset, K.s.l1_size, TRUE))

\* NumFixed of a compare_refcounts that repairs leaks only
NumFixed_leaksonly(fix, refcount1, refcount2) ==
    IF refcount1 # 0 /\ refcount1 > refcount2 /\ "LEAKS" \in fix
    THEN "leaks_fixed" ELSE "NULL"

\* NumFixed of a compare_refcounts that repairs every mismatch in every
\* fixing mode
NumFixed_any(fix, refcount1, refcount2) ==
    IF refcount1 = 0 \/ fix = {} THEN "NULL"
    ELSE IF refcount1 > refcount2 THEN "leaks_fixed"
    ELSE "corruptions_fixed"

\* the counter of compare_refcounts that a repair of the mismatch between the
\* stored refcount1 and the computed refcount2 counts in: NULL for no repair
NumFixed(fix, refcount1, refcount2) ==
    IF refcount1 = 0 THEN "NULL"
    ELSE IF refcount1 > refcount2 /\ "LEAKS" \in fix THEN "leaks_fixed"
    ELSE IF refcount1 < refcount2 /\ "ERRORS" \in fix THEN "corruptions_fixed"
    ELSE "NULL"

\* the body of the loop of compare_refcounts for cluster i, whose stored
\* refcount is refcount1
CompareCluster(K, fix, i, refcount1) ==
    LET refcount2 == K.rt[i]
        num_fixed == NumFixed(fix, refcount1, refcount2)
        seen == IF refcount1 > 0 \/ refcount2 > 0
                THEN [K EXCEPT !.highest = i] ELSE K
        flagged == IF refcount1 = 0 THEN [seen EXCEPT !.rebuild = TRUE]
                   ELSE seen
        note(K1, counter) ==
            Count([K1 EXCEPT !.s = LogT(@, "mismatch", i, refcount1,
                                        [computed |-> refcount2, fix |-> fix,
                                         counted |-> counter])],
                  counter)
        unfixed(K1) == note(K1, IF refcount1 < refcount2 THEN "corruptions"
                                ELSE "leaks")
        updated(r) == IF r.ret >= 0
                      THEN note([flagged EXCEPT !.s = r.s], num_fixed)
                      ELSE unfixed([flagged EXCEPT !.s = r.s])
    IN  IF refcount1 = refcount2 THEN seen
        ELSE IF num_fixed # "NULL"
             THEN updated(update_refcount(flagged.s, i * cluster_size, 1,
                                          refcount2 - refcount1, "ALWAYS"))
        ELSE unfixed(flagged)

RECURSIVE CompareLoop(_, _, _)
\* the loop of compare_refcounts over the clusters i..
CompareLoop(K, fix, i) ==
    LET got(r) == IF r.ret < 0
                  THEN Count([K EXCEPT !.s = r.s], "check_errors")
                  ELSE CompareCluster([K EXCEPT !.s = r.s], fix, i, r.ret)
    IN  IF i >= K.nb THEN K
        ELSE CompareLoop(got(GetRefcount(K.s, i)), fix, i + 1)

compare_refcounts(K, fix) == CompareLoop([K EXCEPT !.highest = 0], fix, 0)

\* the refblock written without the counters of its own range that follow
\* the cluster it was placed in
RefblockContent_upto(K, refblock_start) ==
    [x \in 0..(refcount_block_size - 1) |->
        IF refblock_start + x < K.nb
           /\ (refblock_start + x) * cluster_size <= K.refblock_offset
        THEN K.rt[refblock_start + x]
        ELSE 0]

\* on_disk_refblock: the counters of the in-memory table from refblock_start
\* on, as far as the table reaches
RefblockContent(K, refblock_start) ==
    [x \in 0..(refcount_block_size - 1) |->
        IF refblock_start + x < K.nb THEN K.rt[refblock_start + x]
        ELSE 0]

RECURSIVE ImrtScan(_, _, _, _, _, _)
\* the scan of alloc_clusters_imrt: the cluster it stops at, the free
\* clusters counted before it and the first gap found
ImrtScan(K, cluster_count, cluster, contiguous_free_clusters, first_free_cluster, first_gap) ==
    IF ~(cluster < K.nb /\ contiguous_free_clusters < cluster_count)
    THEN [cluster |-> cluster,
          contiguous_free_clusters |-> contiguous_free_clusters,
          first_free_cluster |-> first_free_cluster]
    ELSE IF K.rt[cluster] = 0
         THEN ImrtScan(K, cluster_count, cluster + 1,
                       contiguous_free_clusters + 1,
                       IF first_gap THEN cluster ELSE first_free_cluster,
                       FALSE)
    ELSE ImrtScan(K, cluster_count, cluster + 1, 0, first_free_cluster,
                  first_gap)

ENOMEM == -12

\* the clusters the in-memory refcount table can be grown to: g_try_realloc
\* fails beyond
MaxImrt == 640

\* alloc_clusters_imrt on the in-memory table of K: K.first_free_cluster is
\* *first_free_cluster, the offset returned is left in K.allocated
alloc_clusters_imrt(K, cluster_count) ==
    LET found(sc) ==
            LET new_nb == IF sc.contiguous_free_clusters < cluster_count
                          THEN sc.cluster + cluster_count
                                   - sc.contiguous_free_clusters
                          ELSE K.nb
                first == sc.cluster - sc.contiguous_free_clusters
            IN  IF new_nb > MaxImrt
                THEN [K EXCEPT !.first_free_cluster = sc.first_free_cluster,
                               !.allocated = ENOMEM]
                ELSE
                [K EXCEPT !.nb = new_nb,
                          !.rt = [c \in 0..(new_nb - 1) |->
                                     IF c \in first..(first + cluster_count - 1)
                                     THEN 1
                                     ELSE IF c < K.nb THEN K.rt[c] ELSE 0],
                          !.first_free_cluster = sc.first_free_cluster,
                          !.allocated = first * cluster_size]
    IN  found(ImrtScan(K, cluster_count, K.first_free_cluster, 0,
                       K.first_free_cluster, TRUE))

\* qcow2_cache_empty(refcount_block_cache): the cache is flushed and, when
\* that succeeded, forgets its blocks
CacheEmpty(S) ==
    LET flushed(r) == IF r.ret < 0 THEN r
                      ELSE R([r.s EXCEPT !.blocks = <<>>], 0)
    IN  flushed(FlushRefcountCache(S))

\* a write of the cluster at offset makes the file at least that long
FileHolds(S, offset, size) ==
    [S EXCEPT !.file_clusters = MAX(@, (offset + size - 1) \div cluster_size + 1)]

ROUND_UP(n, d) == DIV_ROUND_UP(n, d) * d

\* one iteration of the for loop of rebuild_refcount_structure below
\* write_refblocks, for the cluster K.cluster
RefblockIteration(K) ==
    LET refblock_index == K.cluster \div refcount_block_size
        refblock_start == refblock_index * refcount_block_size
        \* the refblock's slot in the new table, which grows to hold it
        slot(K1) ==
            LET new_size == ROUND_UP((refblock_index + 1) * 8, cluster_size)
                                \div 8
                grown == IF K1.reftable_size <= refblock_index
                         THEN [K1 EXCEPT
                                  !.reftable_size = new_size,
                                  !.on_disk_reftable =
                                      [x \in 0..(new_size - 1) |->
                                          IF x < K1.reftable_size
                                          THEN K1.on_disk_reftable[x] ELSE 0],
                                  !.reftable_offset = -1]
                         ELSE K1
            IN  [grown EXCEPT !.on_disk_reftable[refblock_index] = K1.allocated,
                              !.refblock_offset = K1.allocated]
        \* the table is squeezed in behind what seems to be the last refblock
        squeezed(K1) ==
            LET taken(K2) ==
                    IF K2.allocated < 0
                    THEN Failed(Count(K2, "check_errors"), K2.allocated)
                    ELSE [K2 EXCEPT !.reftable_offset = K2.allocated]
            IN  IF refblock_index = (K1.nb - 1) \div refcount_block_size
                   /\ K1.reftable_offset < 0
                THEN taken(alloc_clusters_imrt(
                               K1, size_to_clusters(K1.reftable_size * 8)))
                ELSE K1
        on_disk_refblock(K1) == RefblockContent(K1, refblock_start)
        written(K1) ==
            [K1 EXCEPT
                !.s = LogT(FileHolds(
                               [@ EXCEPT !.disk_blocks =
                                   (K1.refblock_offset :> on_disk_refblock(K1))
                                       @@ @],
                               K1.refblock_offset, cluster_size),
                           "rebuild_block", K1.refblock_offset,
                           refblock_index, <<>>),
                !.cluster = refblock_start + refcount_block_size]
        checked(K1, r) ==
            IF r.ret < 0 THEN Failed([K1 EXCEPT !.s = r.s], r.ret)
            ELSE CheckIo([K1 EXCEPT !.s = r.s], "write_blocks", FALSE, written)
        write(K1) ==
            checked(K1, qcow2_pre_write_overlap_check(K1.s, {},
                                                      K1.refblock_offset,
                                                      cluster_size))
    IN  IF K.rt[K.cluster] = 0 THEN [K EXCEPT !.cluster = @ + 1]
        ELSE LET placed(K1) == IF K1.ret < 0 THEN K1 ELSE write(K1)
                 block(K1) ==
                     IF K1.allocated < 0
                     THEN Failed(Count(K1, "check_errors"), K1.allocated)
                     ELSE placed(squeezed(slot(K1)))
             IN  block(alloc_clusters_imrt(
                     [K EXCEPT !.first_free_cluster = MAX(@, refblock_start)],
                     1))

RECURSIVE WriteRefblocks(_)
\* the for loop of rebuild_refcount_structure below write_refblocks, from
\* K.cluster on
WriteRefblocks(K) ==
    LET next(K1) == IF K1.ret < 0 THEN K1 ELSE WriteRefblocks(K1)
    IN  IF K.cluster >= K.nb THEN K ELSE next(RefblockIteration(K))

\* rebuild_refcount_structure behind the loop when the table has no offset:
\* the table is allocated past the last refcount block, and the loop is to
\* be entered again
TableCycle(K) ==
    LET taken(K1) ==
            IF K1.allocated < 0
            THEN Failed(Count(K1, "check_errors"), K1.allocated)
            ELSE [K1 EXCEPT !.reftable_offset = K1.allocated]
    IN  taken(alloc_clusters_imrt(
                  [K EXCEPT !.first_free_cluster =
                      MAX(@, ROUND_UP(K.nb, refcount_block_size))],
                  size_to_clusters(K.reftable_size * 8)))

\* rebuild_refcount_structure behind the loop when the table has an offset:
\* the table is written, the header updated and the new table put in force
RebuildTail(K) ==
    LET inforce(K1) ==
            [K1.s EXCEPT !.refcount_table = K1.on_disk_reftable,
                         !.refcount_table_offset = K1.reftable_offset,
                         !.refcount_table_size = K1.reftable_size]
        switched(K1) ==
            [K1 EXCEPT !.s = LogT(inforce(K1),
                                  "rebuilt", K1.reftable_offset,
                                  K1.reftable_size,
                                  [rt |-> K1.rt, nb |-> K1.nb,
                                   table |-> K1.on_disk_reftable,
                                   hdr |-> K1.s.hdr,
                                   disk_tables |-> K1.s.disk_tables,
                                   refcounts |->
                                       [c \in 0..(K1.nb - 1) |->
                                           Refcount(inforce(K1), c)]]),
                       !.ret = 0]
        header(K1) ==
            CheckIo([K1 EXCEPT !.s = FileHolds(
                                   [@ EXCEPT !.disk_tables =
                                       (K1.reftable_offset :> K1.on_disk_reftable)
                                           @@ @],
                                   K1.reftable_offset, K1.reftable_size * 8)],
                    "write_header", FALSE,
                    LAMBDA K2 :
                        switched([K2 EXCEPT !.s.hdr =
                            [refcount_table_offset |-> K2.reftable_offset,
                             refcount_table_clusters |->
                                 size_to_clusters(K2.reftable_size * 8)]]))
        checked(K1, r) ==
            IF r.ret < 0 THEN Failed([K1 EXCEPT !.s = r.s], r.ret)
            ELSE CheckIo([K1 EXCEPT !.s = r.s], "write_table", FALSE, header)
    IN  checked(K, qcow2_pre_write_overlap_check(
                       K.s, {}, K.reftable_offset, K.reftable_size * 8))

RECURSIVE RebuildFrom(_)
\* rebuild_refcount_structure from the label write_refblocks on
RebuildFrom(K) ==
    LET again(K1) == IF K1.ret < 0 THEN K1 ELSE RebuildFrom(K1)
        blocks(K1) ==
            IF K1.ret < 0 THEN K1
            ELSE IF K1.reftable_offset < 0 THEN again(TableCycle(K1))
            ELSE RebuildTail(K1)
    IN  blocks(WriteRefblocks(K))

\* rebuild_refcount_structure before the label write_refblocks
RebuildStart(K) ==
    [first_free_cluster |-> 0, reftable_offset |-> -1,
     cluster |-> 0, reftable_size |-> 0, on_disk_reftable |-> <<>>,
     allocated |-> 0, refblock_offset |-> 0]
    @@ [K EXCEPT !.s = CacheEmpty(@).s]

rebuild_refcount_structure(K) == RebuildFrom(RebuildStart(K))

\* the repair that sets QCOW_OFLAG_COPIED whatever the refcount is
WithCopied_set(entry, refcount) ==
    IF HasCopied(entry) THEN entry ELSE entry + QCOW_OFLAG_COPIED

\* entry | QCOW_OFLAG_COPIED when refcount is 1, entry & ~QCOW_OFLAG_COPIED
\* otherwise
WithCopied(entry, refcount) ==
    IF refcount = 1
    THEN IF HasCopied(entry) THEN entry ELSE entry + QCOW_OFLAG_COPIED
    ELSE IF HasCopied(entry) THEN entry - QCOW_OFLAG_COPIED ELSE entry

\* qcow2_write_l1_entry: entry l1_index of the active L1 table reaches the
\* file
qcow2_write_l1_entry(S, l1_index) ==
    IF IoFails(S, "write_l1") THEN R(Tick(S, "write_l1"), EIO)
    ELSE R([Tick(S, "write_l1") EXCEPT
               !.disk_l1[S.l1_table_offset][l1_index] = S.l1_table[l1_index]],
           0)

\* check_oflag_copied that repairs in every mode
OflagRepair_always(K, fix) == TRUE

\* whether check_oflag_copied repairs
OflagRepair(K, fix) ==
    \/ "ERRORS" \in fix
    \/ /\ "LEAKS" \in fix
       /\ K.res.check_errors = 0
       /\ K.res.corruptions = 0
       /\ K.res.leaks = 0

RECURSIVE OflagL2Loop(_, _, _, _, _)
\* the loop of check_oflag_copied over the entries j.. of one L2 table: the
\* table as repaired so far and whether it is dirty
OflagL2Loop(K, repair, l2_table, j, l2_dirty) ==
    LET l2_entry == l2_table[j]
        data_offset == L2eOffsetMask(l2_entry)
        got(r) ==
            IF r.ret < 0
            THEN OflagL2Loop([K EXCEPT !.s = Log(r.s, "oflag_skip",
                                                 data_offset \div cluster_size,
                                                 j)],
                             repair, l2_table, j + 1, l2_dirty)
            ELSE IF (r.ret = 1) # HasCopied(l2_entry)
                 THEN IF repair
                      THEN OflagL2Loop(
                               Count([K EXCEPT !.s = r.s], "corruptions_fixed"),
                               repair,
                               [l2_table EXCEPT ![j] = WithCopied(l2_entry, r.ret)],
                               j + 1, TRUE)
                      ELSE OflagL2Loop(Count([K EXCEPT !.s = r.s], "corruptions"),
                                       repair, l2_table, j + 1, l2_dirty)
            ELSE OflagL2Loop([K EXCEPT !.s = r.s], repair, l2_table, j + 1,
                             l2_dirty)
    IN  IF j > l2_size
        THEN [k |-> K, l2_table |-> l2_table, l2_dirty |-> l2_dirty]
        ELSE IF qcow2_get_cluster_type(l2_entry) = "NORMAL"
             THEN got(GetRefcount(K.s, data_offset \div cluster_size))
        ELSE OflagL2Loop(K, repair, l2_table, j + 1, l2_dirty)

RECURSIVE OflagL1Loop(_, _, _)
\* the loop of check_oflag_copied over the entries i.. of the active L1 table
OflagL1Loop(K, repair, i) ==
    LET l1_entry == K.s.l1_table[i]
        l2_offset == L1eOffsetMask(l1_entry)
        next(K1) == IF K1.ret < 0 THEN K1 ELSE OflagL1Loop(K1, repair, i + 1)
        \* the L2 table is written back when an entry was repaired
        l2_written(K1, l2_table) ==
            [K1 EXCEPT !.s = Log([@ EXCEPT !.disk_l2 = (l2_offset :> l2_table) @@ @],
                                 "write_l2", l2_offset, 0)]
        l2_checked(K1, r, l2_table) ==
            IF r.ret < 0
            THEN Failed(Count([K1 EXCEPT !.s = r.s], "check_errors"), r.ret)
            ELSE CheckIo([K1 EXCEPT !.s = r.s], "write_l2", TRUE,
                         LAMBDA K2 : l2_written(K2, l2_table))
        l2_done(o) ==
            IF o.l2_dirty
            THEN l2_checked(o.k,
                            qcow2_pre_write_overlap_check(o.k.s, {"ACTIVE_L2"},
                                                          l2_offset,
                                                          cluster_size),
                            o.l2_table)
            ELSE o.k
        l2_read(K1) ==
            l2_done(OflagL2Loop(K1, repair, DiskL2At(K1.s, l2_offset), 1, FALSE))
        l2(K1) == IF K1.ret < 0 THEN K1
                  ELSE CheckIo(K1, "read_l2", TRUE, l2_read)
        l1_written(K1, r) ==
            IF r.ret < 0
            THEN Failed(Count([K1 EXCEPT !.s = r.s], "check_errors"), r.ret)
            ELSE Count([K1 EXCEPT !.s = Log(r.s, "write_l1", i, 0)],
                       "corruptions_fixed")
        l1_repaired(S1) ==
            l1_written(K, qcow2_write_l1_entry(S1, i))
        flag(r) ==
            IF (r.ret = 1) # HasCopied(l1_entry)
            THEN IF repair
                 THEN l1_repaired([r.s EXCEPT !.l1_table[i] =
                                                  WithCopied(l1_entry, r.ret)])
                 ELSE Count([K EXCEPT !.s = r.s], "corruptions")
            ELSE [K EXCEPT !.s = r.s]
        got(r) ==
            next(IF r.ret < 0
                 THEN [K EXCEPT !.s = Log(r.s, "oflag_skip",
                                          l2_offset \div cluster_size, 0)]
                 ELSE l2(flag(r)))
    IN  IF i > K.s.l1_size THEN Failed(K, 0)
        ELSE IF l2_offset = 0 THEN OflagL1Loop(K, repair, i + 1)
        ELSE got(GetRefcount(K.s, l2_offset \div cluster_size))

check_oflag_copied(K, fix) ==
    OflagL1Loop([K EXCEPT !.s = LogT(@, "oflag", 0, 0, K.res)],
                OflagRepair(K, fix), 1)

ZeroTable(nb) == [c \in 0..(nb - 1) |-> 0]

RECURSIVE CheckSteps(_, _, _)
\* qcow2_check_refcounts from one of its steps on: the first calculation
\* ("calculate"), the comparison without a fixing mode ("compare"), the
\* rebuild and the calculation after it ("rebuild", "recalculate"), the
\* comparison that fixes the leaks of the rebuild ("compare_leaks"), the
\* comparison in the fixing mode ("compare_fix"), check_oflag_copied
\* ("oflag").  K keeps pre_compare_res, old_res and saved_res.
CheckSteps(K, fix, step) ==
    LET adjusted(K1, fresh_leaks) ==
            [K1 EXCEPT
                !.res.corruptions_fixed =
                    IF K1.res.corruptions < K1.old_res.corruptions
                    THEN @ + K1.old_res.corruptions - K1.res.corruptions
                    ELSE @,
                !.res.leaks_fixed =
                    IF K1.res.leaks < K1.old_res.leaks
                    THEN @ + K1.old_res.leaks - K1.res.leaks ELSE @,
                !.res.leaks = @ + fresh_leaks]
        calculated(K1) ==
            IF K1.ret < 0 THEN K1
            ELSE IF step = "calculate"
                 THEN CheckSteps([K1 EXCEPT !.pre_compare_res = K1.res], fix,
                                 "compare")
            ELSE IF "LEAKS" \in fix
                 THEN CheckSteps([K1 EXCEPT !.saved_res = K1.res,
                                            !.res = ZeroResult],
                                 fix, "compare_leaks")
            ELSE CheckSteps(adjusted(K1, 0), fix, "oflag")
        compared(K1) ==
            IF step = "compare_leaks"
            THEN CheckSteps(adjusted([K1 EXCEPT !.res = K1.saved_res],
                                     K1.res.leaks),
                            fix, "oflag")
            ELSE IF step = "compare_fix" THEN CheckSteps(K1, fix, "oflag")
            ELSE IF K1.rebuild /\ "ERRORS" \in fix
                 THEN CheckSteps([K1 EXCEPT !.old_res = K1.res], fix, "rebuild")
            ELSE IF fix # {} /\ K1.rebuild
                 THEN Failed(Count(K1, "check_errors"), EIO)
            ELSE IF fix # {} /\ (K1.res.leaks # 0 \/ K1.res.corruptions # 0)
                 THEN CheckSteps([K1 EXCEPT !.res = K1.pre_compare_res], fix,
                                 "compare_fix")
            ELSE CheckSteps(K1, fix, "oflag")
        rebuilt(K1) ==
            IF K1.ret < 0 THEN K1 ELSE CheckSteps(K1, fix, "recalculate")
        finished(K1) ==
            IF K1.ret < 0 THEN K1
            ELSE [K1 EXCEPT !.res.image_end_offset =
                                (K1.highest + 1) * cluster_size,
                            !.ret = 0]
    IN  CASE step \in {"calculate", "recalculate"} ->
                 calculated(calculate_refcounts(
                     IF step = "calculate" THEN K
                     ELSE [K EXCEPT !.res.corruptions = 0, !.res.leaks = 0,
                                    !.rebuild = FALSE,
                                    !.rt = ZeroTable(K.nb)],
                     IF step = "calculate" THEN fix ELSE {}))
          [] step \in {"compare", "compare_fix", "compare_leaks"} ->
                 compared(compare_refcounts(
                     K, IF step = "compare" THEN {}
                        ELSE IF step = "compare_fix" THEN fix
                        ELSE {"LEAKS"}))
          [] step = "rebuild" -> rebuilt(rebuild_refcount_structure(K))
          [] step = "oflag" -> finished(check_oflag_copied(K, fix))

\* res is the zeroed result of bdrv_check, the file holds S.file_clusters
\* clusters
qcow2_check_refcounts(S, fix) ==
    CheckSteps([s |-> S, res |-> ZeroResult,
                rt |-> ZeroTable(S.file_clusters), nb |-> S.file_clusters,
                rebuild |-> FALSE, ret |-> 0, highest |-> 0,
                pre_compare_res |-> ZeroResult, old_res |-> ZeroResult,
                saved_res |-> ZeroResult],
               fix, "calculate")

----------------------------------------------------------------------------
(* Allocation of bytes and the refcounts of a snapshot.  The image keeps   *)
(* free_byte_offset and the L2 tables of the L2 table cache (l2_tables,    *)
(* the dirty ones in l2_dirty).                                            *)

\* qcow2_alloc_bytes.  The code allocates a cluster at most once in a call,
\* when free_byte_offset is 0 or when size does not fit into the rest of the
\* cluster, and shares the cluster of the returned offset at most once, when
\* the bytes begin inside a cluster or continue into the new one ("we are
\* lucky"); the results of qcow2_update_cluster_refcount are not looked at.
qcow2_alloc_bytes(S, size) ==
    LET free_byte_offset == S.free_byte_offset
        free_in_cluster(f) == cluster_size - offset_into_cluster(f)
        fits == free_byte_offset # 0 /\ size <= free_in_cluster(free_byte_offset)
        took(a) ==
            LET lucky == /\ free_byte_offset # 0
                         /\ start_of_cluster(free_byte_offset) + cluster_size
                                = a.ret
                offset == IF fits \/ lucky THEN free_byte_offset ELSE a.ret
                next == IF lucky THEN free_byte_offset + size
                        ELSE IF free_in_cluster(offset) = size THEN 0
                        ELSE offset + size
                S1 == Log([a.s EXCEPT !.free_byte_offset = next],
                          "alloc_bytes", offset, size)
                shared(u) == R(SetDependency(u.s, "l2", "refcount"), offset)
            IN  IF a.ret < 0 THEN a
                ELSE shared(IF lucky \/ offset_into_cluster(offset) # 0
                            THEN qcow2_update_cluster_refcount(
                                     S1, offset \div cluster_size, 1, "NEVER")
                            ELSE R(S1, 0))
    IN  took(IF fits THEN R(S, 0) ELSE qcow2_alloc_clusters(S, cluster_size))

\* qcow2_cache_get on the L2 table cache
L2CacheGet(S, off) ==
    IF IoFails(S, "l2_cache_get") THEN R(Tick(S, "l2_cache_get"), EIO)
    ELSE LET S1 == Tick(S, "l2_cache_get")
         IN  R(IF off \in DOMAIN S1.l2_tables THEN S1
               ELSE [S1 EXCEPT !.l2_tables = (off :> DiskL2At(S1, off)) @@ @],
               0)

\* bdrv_flush(bs): both metadata caches are written
bdrv_flush(S) ==
    OnOk(FlushRefcountCache(S), LAMBDA T : FlushL2Cache(T))

\* the dependency registered for the updates that decrement
SnapshotDependency_decrement(S, addend) ==
    IF addend < 0 THEN SetDependency(S, "l2", "refcount") ELSE S

\* qcow2_update_snapshot_refcount before it changes an L2 entry: refcount
\* blocks are written before the L2 table when the refcount was incremented
SnapshotDependency(S, addend) ==
    IF addend > 0 THEN SetDependency(S, "l2", "refcount") ELSE S

RECURSIVE SnapshotRefcountLoop(_, _, _, _)
\* the loops of qcow2_update_snapshot_refcount, from entry i of the L1 table
\* on.  K holds the image s, ret, the L1 table l1_table and l1_modified.
\* With j = 0 the L2 table of the entry is taken from the cache, with
\* 1 <= j <= l2_size its entry j is visited, with j = l2_size + 1 the L2 table
\* itself is counted and the L1 entry updated.
SnapshotRefcountLoop(K, addend, i, j) ==
    LET S == K.s
        l2_offset == L1eOffsetMask(K.l1_table[i])
        fail(S1, ret) == [K EXCEPT !.s = S1, !.ret = ret]
        got(g) == IF g.ret < 0 THEN fail(g.s, g.ret)
                  ELSE SnapshotRefcountLoop([K EXCEPT !.s = g.s], addend, i, 1)
        of_l2 == j <= l2_size
        old_offset == IF of_l2 THEN S.l2_tables[l2_offset][j] ELSE K.l1_table[i]
        offset == IF of_l2
                  THEN IF HasCopied(old_offset)
                       THEN old_offset - QCOW_OFLAG_COPIED ELSE old_offset
                  ELSE l2_offset
        cluster_index == L2eOffsetMask(offset) \div cluster_size
        compressed == of_l2 /\ qcow2_get_cluster_type(offset) = "COMPRESSED"
        unallocated ==
            of_l2 /\ (qcow2_get_cluster_type(offset) = "UNALLOCATED"
                      \/ cluster_index = 0)
        \* compressed clusters are never modified: refcount = 2
        sectors(u) == IF u.ret < 0 THEN u ELSE R(u.s, 2)
        \* the entry with QCOW_OFLAG_COPIED when the refcount is 1
        set(S1, refcount) ==
            LET new == IF refcount = 1 THEN offset + QCOW_OFLAG_COPIED
                       ELSE offset
                S2 == SnapshotDependency(S1, addend)
                S3 == LogT([S2 EXCEPT !.l2_tables[l2_offset][j] = new,
                                      !.l2_dirty = @ \cup {l2_offset}],
                           "l2_entry_set", l2_offset, j, new)
            IN  IF of_l2
                THEN SnapshotRefcountLoop(
                         [K EXCEPT !.s = IF new = old_offset THEN S1 ELSE S3],
                         addend, i, j + 1)
                ELSE SnapshotRefcountLoop(
                         IF new = old_offset THEN [K EXCEPT !.s = S1]
                         ELSE [K EXCEPT !.s = S1, !.l1_table[i] = new,
                                        !.l1_modified = TRUE],
                         addend, i + 1, 0)
        counted(r) == IF r.ret < 0 THEN fail(r.s, r.ret) ELSE set(r.s, r.ret)
    IN  IF i > Len(K.l1_table) THEN K
        ELSE IF K.l1_table[i] = 0
        THEN SnapshotRefcountLoop(K, addend, i + 1, 0)
        ELSE IF j = 0
        THEN IF offset_into_cluster(l2_offset) # 0
             THEN fail(SignalCorruption(S), EIO)
             ELSE got(L2CacheGet(S, l2_offset))
        ELSE IF compressed
        THEN counted(IF addend = 0 THEN R(S, 2)
                     ELSE sectors(update_refcount(
                              S,
                              (cluster_offset_mask(offset) \div BDRV_SECTOR_SIZE)
                                  * BDRV_SECTOR_SIZE,
                              nb_csectors(offset) * BDRV_SECTOR_SIZE, addend,
                              "SNAPSHOT")))
        ELSE IF of_l2 /\ ~unallocated
                      /\ offset_into_cluster(L2eOffsetMask(offset)) # 0
        THEN fail(SignalCorruption(S), EIO)
        ELSE counted(IF unallocated THEN R(S, 0)
                     ELSE IF addend # 0
                     THEN qcow2_update_cluster_refcount(S, cluster_index, addend,
                                                        "SNAPSHOT")
                     ELSE GetRefcount(S, cluster_index))

\* qcow2_update_snapshot_refcount.  The active L1 table is updated in place,
\* the L1 table of a snapshot is read from the file.
qcow2_update_snapshot_refcount(S, l1_table_offset, l1_size, addend) ==
    LET active == l1_table_offset = S.l1_table_offset
        S0 == [Log(S, "update_snapshot_refcount", l1_table_offset, addend)
                  EXCEPT !.cache_discards = TRUE]
        \* the L1 table is written when it is not deleted anyway
        written(K, S1) ==
            IF K.ret = 0 /\ addend >= 0 /\ K.l1_modified
            THEN IF IoFails(S1, "write_l1") THEN R(Tick(S1, "write_l1"), EIO)
                 ELSE R(Log([Tick(S1, "write_l1") EXCEPT
                                !.disk_l1 = (l1_table_offset :> K.l1_table) @@ @],
                            "write_l1", l1_table_offset, 0), 0)
            ELSE R(S1, K.ret)
        \* fail: the queued discards are processed
        left(K) ==
            written(K, ProcessDiscards(
                           [K.s EXCEPT !.cache_discards = FALSE,
                                       !.l1_table = IF active THEN K.l1_table
                                                    ELSE @],
                           K.ret))
        flushed(K) ==
            IF K.ret < 0 THEN left(K)
            ELSE LET f == bdrv_flush(K.s)
                 IN  left([K EXCEPT !.s = f.s, !.ret = f.ret])
        loop(S1, l1_table) ==
            flushed(SnapshotRefcountLoop(
                        [s |-> S1, ret |-> 0, l1_table |-> l1_table,
                         l1_modified |-> FALSE], addend, 1, 0))
    IN  IF active THEN loop(S0, S0.l1_table)
        ELSE IF IoFails(S0, "read_l1")
        THEN left([s |-> Tick(S0, "read_l1"), ret |-> EIO, l1_table |-> <<>>,
                   l1_modified |-> FALSE])
        ELSE loop(Tick(S0, "read_l1"), DiskL1At(S0, l1_table_offset, l1_size))

----------------------------------------------------------------------------
(* Bookkeeping of what the callers were told (not program state):          *)
(* net is the sum of the +1/-1 deltas applied to each cluster, live the    *)
(* ranges qcow2_alloc_clusters returned that no free has touched since,    *)
(* allok whether every call so far completed without error.                *)

NetOf(f, c) == IF c \in DOMAIN f THEN f[c] ELSE 0

NetApply(f, clusters, d) ==
    [c \in (DOMAIN f) \cup clusters |->
        NetOf(f, c) + (IF c \in clusters THEN d ELSE 0)]

RECURSIVE MetaDeltasOf(_, _, _)
\* the deltas the metadata bootstrap of an operation applied: +1 for a
\* refcount block hooked into the table, +1 for each cluster of a new table
\* and its blocks, -1 for each cluster of an old table that was freed
MetaDeltasOf(f, log, i) ==
    IF i > Len(log) THEN f
    ELSE LET e == log[i]
             f1 == CASE e.ev = "block_hooked" ->
                           NetApply(f, {e.off \div cluster_size}, 1)
                      [] e.ev = "switch_table" ->
                           NetApply(f, e.tab.meta_first..
                                       (e.tab.meta_first + e.tab.meta_count - 1), 1)
                      [] e.ev = "free_old_table_done" /\ e.n = 0 ->
                           NetApply(f, ClustersOf(e.off, e.tab), -1)
                      [] OTHER -> f
         IN  MetaDeltasOf(f1, log, i + 1)

IsMetaEvent(e) == e.ev \in {"block_hooked", "switch_table", "free_old_table_done"}

MetaDeltas(f, log, i) == MetaDeltasOf(f, SelectSeq(log, IsMetaEvent), i)

\* the state an operation starts from, with its planned I/O failure
Begin(S, kind, at) ==
    [S EXCEPT !.failKind = kind, !.failAt = at, !.ios = 0, !.log = <<>>,
              !.discarded = <<>>, !.cache_ops = 0, !.max_level = 0]

\* the state an operation leaves, without the record of its run
End(S) ==
    [S EXCEPT !.failKind = "none", !.failAt = 0, !.ios = 0, !.log = <<>>,
              !.discarded = <<>>, !.cache_ops = 0, !.max_level = 0]

Outcome(op, a, b, ty, r) ==
    [op |-> op, a |-> a, b |-> b, type |-> ty, ret |-> r.ret,
     log |-> r.s.log, discarded |-> r.s.discarded,
     cache_ops |-> r.s.cache_ops, max_level |-> r.s.max_level,
     failed |-> (r.s.failAt # 0 /\ r.s.ios >= r.s.failAt),
     pre |-> s]

\* the planned failures: none, or the n-th call of one kind
Plans == {<<"none", 0>>} \cup (IoKinds \X (1..MaxFail))

----------------------------------------------------------------------------
(* The state machine *)

\* the images a behaviour starts from: `used` clusters in use
InitUsed == {3, 8}

\* what the callers ask for: <<cluster index, number of clusters>> of
\* qcow2_alloc_clusters_at, <<cluster index, number of clusters, discard
\* type>> of qcow2_free_clusters, <<cluster index, addend, discard type>> of
\* qcow2_update_cluster_refcount, the cluster index of get_refcount
AllocAtInputs == {<<3, 0>>, <<7, 2>>, <<8, 1>>, <<16, 1>>}
FreeInputs == {<<3, 1, "SNAPSHOT">>, <<6, 2, "NEVER">>, <<7, 2, "SNAPSHOT">>}
UpdateInputs == {<<3, -1, "SNAPSHOT">>, <<3, 1, "NEVER">>, <<8, 1, "NEVER">>,
                 <<16, 1, "NEVER">>, <<50, 1, "NEVER">>}
GetInputs == {3, 8, 16}

Init ==
    /\ \E used \in InitUsed :
          /\ s = ConsistentImage(used, DiscardPassthrough(FALSE, FALSE))
          /\ net = [c \in 0..(used - 1) |-> 1]
    /\ last = [op |-> "open"]
    /\ live = {}
    /\ allok = TRUE
    /\ nops = 0

InitEmpty ==
    /\ s = EmptyImage(DiscardPassthrough(FALSE, FALSE))
    /\ net = <<>>
    /\ last = [op |-> "open"]
    /\ live = {}
    /\ allok = TRUE
    /\ nops = 0

AllocClusters ==
    \E n \in 1..MaxAlloc, plan \in Plans :
        LET size == n * cluster_size
            done(r) ==
                /\ s' = End(r.s)
                /\ last' = Outcome("alloc_clusters", size, 0, "NEVER", r)
                /\ net' = IF r.ret >= 0
                          THEN NetApply(MetaDeltas(net, r.s.log, 1),
                                        ClustersOf(r.ret, size), 1)
                          ELSE MetaDeltas(net, r.s.log, 1)
                /\ live' = IF r.ret >= 0
                           THEN live \cup {[id |-> nops,
                                            clusters |-> ClustersOf(r.ret, size)]}
                           ELSE live
                /\ allok' = (allok /\ r.ret >= 0)
        IN  /\ nops < MaxOps
            /\ done(qcow2_alloc_clusters(Begin(s, plan[1], plan[2]), size))
            /\ nops' = nops + 1

AllocClustersAt ==
    \E in \in AllocAtInputs, plan \in Plans :
        LET c == in[1]
            n == in[2]
            offset == c * cluster_size
            done(r) ==
                /\ s' = End(r.s)
                /\ last' = Outcome("alloc_clusters_at", offset, n, "NEVER", r)
                /\ net' = IF r.ret >= 0
                          THEN NetApply(MetaDeltas(net, r.s.log, 1),
                                        c..(c + r.ret - 1), 1)
                          ELSE MetaDeltas(net, r.s.log, 1)
                /\ live' = live
                /\ allok' = (allok /\ r.ret >= 0)
        IN  /\ nops < MaxOps
            /\ done(qcow2_alloc_clusters_at(Begin(s, plan[1], plan[2]), offset, n))
            /\ nops' = nops + 1

\* the callers free and share data clusters only, never the clusters of the
\* header, the refcount table or a refcount block
FreeClustersWith(inputs, plans) ==
    \E in \in inputs, plan \in plans :
        LET offset == in[1] * cluster_size
            size == in[2] * cluster_size
            ty == in[3]
            done(r) ==
                /\ s' = End(r.s)
                /\ last' = Outcome("free_clusters", offset, size, ty, r)
                /\ net' = IF r.ret >= 0
                          THEN NetApply(MetaDeltas(net, r.s.log, 1),
                                        ClustersOf(offset, size), -1)
                          ELSE MetaDeltas(net, r.s.log, 1)
                /\ live' = {l \in live :
                               l.clusters \cap ClustersOf(offset, size) = {}}
                /\ allok' = (allok /\ r.ret >= 0)
        IN  /\ nops < MaxOps
            /\ ClustersOf(offset, size) \cap MetaClusters(s) = {}
            /\ done(qcow2_free_clusters(Begin(s, plan[1], plan[2]), offset, size,
                                        ty))
            /\ nops' = nops + 1

FreeClusters == FreeClustersWith(FreeInputs, Plans)

UpdateClusterRefcount ==
    \E in \in UpdateInputs, plan \in Plans :
        LET c == in[1]
            addend == in[2]
            ty == in[3]
            done(r) ==
                /\ s' = End(r.s)
                /\ last' = Outcome("update_cluster_refcount", c, addend, ty, r)
                /\ net' = IF r.ret >= 0
                          THEN NetApply(MetaDeltas(net, r.s.log, 1), {c}, addend)
                          ELSE MetaDeltas(net, r.s.log, 1)
                /\ live' = IF addend < 0 THEN {l \in live : c \notin l.clusters}
                           ELSE live
                /\ allok' = (allok /\ r.ret >= 0)
        IN  /\ nops < MaxOps
            /\ c \notin MetaClusters(s)
            /\ done(qcow2_update_cluster_refcount(Begin(s, plan[1], plan[2]),
                                                  c, addend, ty))
            /\ nops' = nops + 1

GetRefcountOp ==
    \E c \in GetInputs, plan \in {p \in Plans : p[1] \in {"none", "cache_get"}} :
        LET done(r) ==
                /\ s' = End(r.s)
                /\ last' = Outcome("get_refcount", c, 0, "NEVER", r)
        IN  /\ nops < MaxOps
            /\ done(GetRefcount(Begin(s, plan[1], plan[2]), c))
            /\ UNCHANGED <<net, live, allok>>
            /\ nops' = nops + 1

\* a caller's qcow2_process_discards(ret)
ProcessDiscardsWith(rets, plans) ==
    \E ret \in rets, plan \in plans :
        LET done(r) ==
                /\ s' = End(r.s)
                /\ last' = Outcome("process_discards", ret, 0, "NEVER", r)
        IN  /\ nops < MaxOps
            /\ done(R(ProcessDiscards(Begin(s, plan[1], plan[2]), ret), 0))
            /\ UNCHANGED <<net, live, allok>>
            /\ nops' = nops + 1

ProcessDiscardsOp == ProcessDiscardsWith({0, EIO}, {<<"none", 0>>})

Next ==
    \/ AllocClusters
    \/ AllocClustersAt
    \/ FreeClusters
    \/ UpdateClusterRefcount
    \/ GetRefcountOp
    \/ ProcessDiscardsOp

Spec == Init /\ [][Next]_vars

SpecEmpty == InitEmpty /\ [][Next]_vars

\* the engine on images at the edge of what it accepts: a saturated counter,
\* a damaged refcount table entry
InitEdge ==
    /\ \/ /\ s = SaturatedImage(DiscardPassthrough(FALSE, FALSE))
          /\ net = [c \in 0..7 |-> IF c = 3 THEN REFCOUNT_MAX ELSE 1]
       \/ /\ \E entry \in DamagedEntries :
                s = DamagedImage(entry, DiscardPassthrough(FALSE, FALSE))
          /\ net = [c \in 0..7 |-> 1]
    /\ last = [op |-> "open"]
    /\ live = {}
    /\ allok = TRUE
    /\ nops = 0

SpecEdge == InitEdge /\ [][Next]_vars

\* the engine while its callers do and do not cache the discards
\* (s->cache_discards), with a backend whose discard can fail
DiscardFreeInputs ==
    {<<3, 1, "SNAPSHOT">>, <<4, 1, "SNAPSHOT">>, <<5, 1, "SNAPSHOT">>,
     <<6, 2, "REQUEST">>, <<7, 2, "SNAPSHOT">>}
DiscardPlans == {<<"none", 0>>, <<"discard", 1>>, <<"discard", 2>>}

InitDiscard ==
    /\ \E cached \in BOOLEAN, request \in BOOLEAN :
          s = [ConsistentImage(8, DiscardPassthrough(request, FALSE))
                  EXCEPT !.cache_discards = cached]
    /\ net = [c \in 0..7 |-> 1]
    /\ last = [op |-> "open"]
    /\ live = {}
    /\ allok = TRUE
    /\ nops = 0

NextDiscard ==
    \/ FreeClustersWith(DiscardFreeInputs, DiscardPlans)
    \/ ProcessDiscardsWith({EIO, 0, 1}, DiscardPlans)

SpecDiscard == InitDiscard /\ [][NextDiscard]_vars

\* the engine under the callers that allocate bytes for compressed data and
\* take or delete snapshots
AllocBytesSizes == {6, 11, 16}
SnapshotAddends == {-1, 0, 1}
MapPlans ==
    {<<"none", 0>>, <<"cache_get", 1>>, <<"cache_get", 3>>,
     <<"l2_cache_get", 1>>, <<"flush_refcount", 1>>, <<"read_l1", 1>>,
     <<"write_l1", 1>>}

\* an image whose active L2 table maps, in its second entry, compressed data
\* of a cluster's length that begin one sector into the first cluster behind
\* the image and so take two clusters
CompressedImage(S) ==
    LET c == S.file_clusters
        counted(db, k) ==
            [db EXCEPT ![S.refcount_table[k \div refcount_block_size]]
                           [k % refcount_block_size] = 1]
    IN  [S EXCEPT !.disk_l2[L1eOffsetMask(S.l1_table[1])][2] =
                      c * cluster_size + BDRV_SECTOR_SIZE
                      + QCOW_OFLAG_COMPRESSED
                      + (cluster_size \div BDRV_SECTOR_SIZE - 1) * csize_shift,
                  !.disk_blocks = counted(counted(@, c), c + 1),
                  !.file_clusters = c + 2]

InitMap ==
    /\ \E snap \in BOOLEAN, compressed \in BOOLEAN :
          LET S == [free_byte_offset |-> 0, l2_tables |-> <<>>,
                    l2_dirty |-> {}]
                   @@ MappedImage(snap, {}, DiscardPassthrough(FALSE, FALSE))
          IN  s = IF compressed THEN CompressedImage(S) ELSE S
    /\ net = <<>>
    /\ last = [op |-> "open"]
    /\ live = {}
    /\ allok = TRUE
    /\ nops = 0

AllocBytes ==
    \E size \in AllocBytesSizes, plan \in MapPlans :
        LET done(r) ==
                /\ s' = End(r.s)
                /\ last' = Outcome("alloc_bytes", size, 0, "NEVER", r)
                /\ live' = IF r.ret >= 0
                           THEN live \cup {[id |-> nops, offset |-> r.ret,
                                            size |-> size]}
                           ELSE live
                /\ allok' = (allok /\ r.ret >= 0 /\ ~last'.failed)
        IN  /\ nops < MaxOps
            /\ done(qcow2_alloc_bytes(Begin(s, plan[1], plan[2]), size))
            /\ UNCHANGED net
            /\ nops' = nops + 1

\* the L1 table is the active one or that of a snapshot
UpdateSnapshotRefcount ==
    \E t \in {[l1_table_offset |-> s.l1_table_offset, l1_size |-> s.l1_size]}
             \cup {s.snapshots[i] : i \in DOMAIN s.snapshots},
       addend \in SnapshotAddends, plan \in MapPlans :
        LET done(r) ==
                /\ s' = End(r.s)
                /\ last' = Outcome("update_snapshot_refcount", t.l1_table_offset,
                                   addend, "SNAPSHOT", r)
        IN  /\ nops < MaxOps
            /\ done(qcow2_update_snapshot_refcount(
                        Begin(s, plan[1], plan[2]), t.l1_table_offset,
                        t.l1_size, addend))
            /\ UNCHANGED <<net, live, allok>>
            /\ nops' = nops + 1

NextMap == AllocBytes \/ UpdateSnapshotRefcount

SpecMap == InitMap /\ [][NextMap]_vars

\* qcow2_alloc_clusters pass by pass: a call is entered, every pass through
\* its loop is a step, and the other operations run between the calls.  No
\* I/O call fails during a call.  restarts counts the passes that were
\* answered with -EAGAIN, up to MaxRestarts, and odd is their parity.
RetrySizes == {1, 3, 9, 41}
MaxRestarts == 8

InCall == last.op = "alloc_clusters_call"

AllocCall ==
    \E n \in RetrySizes :
        /\ ~InCall
        /\ nops < MaxOps
        /\ last' = [op |-> "alloc_clusters_call", a |-> n * cluster_size,
                    restarts |-> 0, odd |-> FALSE, pre |-> s]
        /\ nops' = nops + 1
        /\ UNCHANGED <<s, net, live, allok>>

AllocPass ==
    /\ InCall
    /\ LET done(r) ==
               /\ s' = End(r.s)
               /\ last' = IF r.ret = EAGAIN
                          THEN [last EXCEPT
                                   !.restarts = MIN(@ + 1, MaxRestarts),
                                   !.odd = ~@]
                          ELSE [op |-> "alloc_clusters", a |-> last.a,
                                b |-> last.restarts,
                                ret |-> IF r.ret < 0 THEN r.ret ELSE r.offset,
                                log |-> r.s.log, pre |-> last.pre]
       IN  done(AllocIteration(Begin(s, "none", 0), last.a))
    /\ UNCHANGED <<net, live, allok, nops>>

NextRetry ==
    \/ AllocCall
    \/ AllocPass
    \/ ~InCall /\ FreeClusters
    \/ ~InCall /\ UpdateClusterRefcount
    \/ ~InCall /\ AllocClustersAt

\* a call that has been entered runs on: weak fairness of AllocPass, whose
\* steps are the steps that change the state during a call and which is
\* enabled exactly during a call
PassFairness == []<>(~InCall) \/ []<><<InCall>>_vars

SpecRetry == Init /\ [][NextRetry]_vars /\ PassFairness

\* the engine under a caller that only allocates bytes for compressed data
SpecBytes == InitMap /\ [][AllocBytes]_vars

\* an image whose active L2 table maps, in its second entry, a cluster
\* behind those the refcount table describes
StrayImage(S) ==
    [S EXCEPT !.disk_l2[L1eOffsetMask(S.l1_table[1])][2] =
                  S.refcount_table_size * refcount_block_size * cluster_size]

\* the images of InitMap and those with the stray entry
InitWalk ==
    /\ \E snap \in BOOLEAN, compressed \in BOOLEAN, stray \in BOOLEAN :
          LET S == [free_byte_offset |-> 0, l2_tables |-> <<>>,
                    l2_dirty |-> {}]
                   @@ MappedImage(snap, {}, DiscardPassthrough(FALSE, FALSE))
          IN  /\ ~(compressed /\ stray)
              /\ s = IF compressed THEN CompressedImage(S)
                     ELSE IF stray THEN StrayImage(S) ELSE S
    /\ net = <<>>
    /\ last = [op |-> "open"]
    /\ live = {}
    /\ allok = TRUE
    /\ nops = 0

\* the engine under the callers that take or delete snapshots
SpecWalk == InitWalk /\ [][UpdateSnapshotRefcount]_vars

\* the overlap checks an image is opened with: all of them, all but the one
\* that reads the inactive L1 tables, none
OverlapChecks == {OlKindSet, OlKindSet \ {"INACTIVE_L2"}, {}}

\* the ranges asked about: <<offset, size>> in bytes, from the header to
\* past the end of the image, aligned or not, empty or not
OverlapRanges ==
    {c * cluster_size + d : c \in 0..10, d \in {0, cluster_size \div 4}}
        \X {0, 1, cluster_size, cluster_size + 1}

\* the sections a caller asks to ignore
OverlapIgnores == {{}} \cup {{k} : k \in OlKindSet}

\* the planned failures of a check: none, or the read of an inactive L1 table
OverlapPlans == {<<"none", 0>>, <<"read_l1", 1>>}

InitOverlap ==
    /\ \E snap \in BOOLEAN, chk \in OverlapChecks :
          s = MappedImage(snap, chk, DiscardPassthrough(FALSE, FALSE))
    /\ net = <<>>
    /\ last = [op |-> "open"]
    /\ live = {}
    /\ allok = TRUE
    /\ nops = 0

CheckMetadataOverlapOp ==
    \E in \in OverlapRanges, ign \in OverlapIgnores, plan \in OverlapPlans :
        LET done(r) ==
                /\ s' = End(r.s)
                /\ last' = [ign |-> ign, plan |-> plan]
                           @@ Outcome("check_metadata_overlap", in[1], in[2],
                                      "NEVER", r)
        IN  /\ last.op = "open"
            /\ done(qcow2_check_metadata_overlap(Begin(s, plan[1], plan[2]),
                                                 ign, in[1], in[2]))
            /\ UNCHANGED <<net, live, allok>>
            /\ nops' = nops + 1

PreWriteOverlapCheckOp ==
    \E in \in OverlapRanges, ign \in OverlapIgnores, plan \in OverlapPlans :
        LET done(r) ==
                /\ s' = End(r.s)
                /\ last' = [ign |-> ign, plan |-> plan]
                           @@ Outcome("pre_write_overlap_check", in[1], in[2],
                                      "NEVER", r)
        IN  /\ last.op = "open"
            /\ done(qcow2_pre_write_overlap_check(Begin(s, plan[1], plan[2]),
                                                  ign, in[1], in[2]))
            /\ UNCHANGED <<net, live, allok>>
            /\ nops' = nops + 1

NextOverlap ==
    \/ CheckMetadataOverlapOp
    \/ PreWriteOverlapCheckOp

SpecOverlap == InitOverlap /\ [][NextOverlap]_vars

\* the checks made in a behaviour
MaxChecks == 2

\* an image on which the stored refcount of cluster c was overwritten with v
OverwrittenImage(snap, c, v) ==
    LET S == MappedImage(snap, OlKindSet \ {"INACTIVE_L2"},
                         DiscardPassthrough(FALSE, FALSE))
        off == S.refcount_table[c \div refcount_block_size]
    IN  [S EXCEPT !.disk_blocks[off][c % refcount_block_size] = v]

\* the refcounts overwritten: of the refcount table's cluster, of the two
\* refcount blocks, of the active L2 table, of a data cluster, of the L2 table
\* of the snapshot, of a cluster past the end of the image
OverwrittenClusters == {1, 2, 3, 5, 6, 9, 12}
OverwrittenValues == 0..3

\* the planned failures of a check; the 11th and the 15th qcow2_cache_get of
\* a check of these images are made by check_oflag_copied
CheckPlans ==
    {<<"none", 0>>, <<"read_l1", 1>>, <<"read_l2", 1>>, <<"cache_get", 1>>,
     <<"write_table", 1>>, <<"cache_get", 11>>, <<"cache_get", 15>>}

InitCheck ==
    /\ \E snap \in BOOLEAN :
          \/ s = MappedImage(snap, OlKindSet \ {"INACTIVE_L2"},
                             DiscardPassthrough(FALSE, FALSE))
          \/ \E c \in OverwrittenClusters, v \in OverwrittenValues :
                /\ v # Refcount(MappedImage(snap, {},
                                            DiscardPassthrough(FALSE, FALSE)), c)
                /\ s = OverwrittenImage(snap, c, v)
    /\ net = <<>>
    /\ last = [op |-> "open"]
    /\ live = {}
    /\ allok = TRUE
    /\ nops = 0

CheckRefcountsOp ==
    \E fix \in FixModes, plan \in CheckPlans :
        LET done(K) ==
                /\ s' = End(K.s)
                /\ last' = [fix |-> fix, plan |-> plan, res |-> K.res,
                            before |-> IF last.op = "open" THEN last
                                       ELSE [op |-> last.op, fix |-> last.fix,
                                             res |-> last.res, ret |-> last.ret,
                                             failed |-> last.failed,
                                             plan |-> last.plan,
                                             pre |-> last.pre]]
                           @@ Outcome("check_refcounts", 0, 0, "NEVER", K)
        IN  /\ nops < MaxChecks
            /\ done(qcow2_check_refcounts(Begin(s, plan[1], plan[2]), fix))
            /\ UNCHANGED <<net, live, allok>>
            /\ nops' = nops + 1

NextCheck == CheckRefcountsOp

SpecCheck == InitCheck /\ [][NextCheck]_vars

\* the consistency images a rebuild is given: clusters 0..(n - 1), used but
\* for the second cluster of every refcount block, the first three used, or
\* every second one used
MaxImage == 160
RebuildShapes == {"dense", "head", "even"}
ConsistencyImage(n, shape) ==
    [c \in 0..(n - 1) |->
        IF c = 0 THEN 1
        ELSE IF shape = "dense"
             THEN IF c % refcount_block_size = 1 THEN 0 ELSE 1
        ELSE IF shape = "head" THEN IF c < 3 THEN 1 ELSE 0
        ELSE IF c % 2 = 0 THEN 2 ELSE 0]

\* a rebuild is under way
InRebuild == last.op = "rebuild_call"

\* rebuild_refcount_structure is called with a consistency image of n
\* clusters, without I/O errors
RebuildCall ==
    \E n \in 1..MaxImage, shape \in RebuildShapes :
        /\ last.op = "open"
        /\ last' = [op |-> "rebuild_call", a |-> n, shape |-> shape,
                    K |-> RebuildStart(
                              [s |-> Begin(s, "none", 0), res |-> ZeroResult,
                               rt |-> ConsistencyImage(n, shape), nb |-> n,
                               ret |-> 0]),
                    pre |-> s]
        /\ nops' = nops + 1
        /\ UNCHANGED <<s, net, live, allok>>

\* the rebuild goes on: an iteration of the loop, the allocation of the
\* table behind the loop, or the end of the function
RebuildStep ==
    LET K == last.K
        done(K1) ==
            /\ s' = End(K1.s)
            /\ last' = [op |-> "rebuild", a |-> last.a, shape |-> last.shape,
                        ret |-> K1.ret, log |-> K1.s.log, res |-> K1.res,
                        rt |-> K1.rt, nb |-> K1.nb,
                        reftable_offset |-> K1.reftable_offset,
                        reftable_size |-> K1.reftable_size,
                        on_disk_reftable |-> K1.on_disk_reftable,
                        pre |-> last.pre]
        on(K1) == IF K1.ret < 0 THEN done(K1)
                  ELSE /\ last' = [last EXCEPT !.K = K1]
                       /\ s' = s
    IN  /\ InRebuild
        /\ IF K.cluster < K.nb THEN on(RefblockIteration(K))
           ELSE IF K.reftable_offset < 0 THEN on(TableCycle(K))
           ELSE done(RebuildTail(K))
        /\ UNCHANGED <<net, live, allok, nops>>

NextRebuild == RebuildCall \/ RebuildStep

\* an image opened without overlap checks, with or without a snapshot
InitRebuild ==
    /\ \E snap \in BOOLEAN :
          s = MappedImage(snap, {}, DiscardPassthrough(FALSE, FALSE))
    /\ net = <<>>
    /\ last = [op |-> "open"]
    /\ live = {}
    /\ allok = TRUE
    /\ nops = 0

\* the rebuild alone
SpecRebuild == InitRebuild /\ [][NextRebuild]_vars

----------------------------------------------------------------------------
(* Properties *)

\* the positions of the events ev in a log
EventsOf(log, ev) == {i \in DOMAIN log : log[i].ev = ev}

\* the clusters the last call handed out
Returned ==
    IF last.op = "alloc_clusters" THEN ClustersOf(last.ret, last.a)
    ELSE (last.a \div cluster_size)..((last.a \div cluster_size) + last.ret - 1)

\* the clusters that hold what a call bootstrapped: a refcount block it
\* hooked into the table, a new refcount table and the blocks describing it
TakenForMeta(log) ==
    {log[i].off \div cluster_size : i \in EventsOf(log, "block_hooked")}
    \cup UNION {log[i].tab.meta_first..
                    (log[i].tab.meta_first + log[i].tab.meta_count - 1) :
                 i \in EventsOf(log, "switch_table")}

\* the refcount the last update of cluster c in the log set
LastSetOf(log, c) ==
    LET I == {i \in EventsOf(log, "set_refcount") : log[i].off = c}
    IN  IF I = {} THEN -1
        ELSE log[CHOOSE i \in I : \A j \in I : j <= i].n

\* C1: as long as every call has completed without error, get_refcount of
\* every cluster equals the net sum of the +1/-1 deltas applied to that
\* cluster since the image was created, and is never below 0.
C1_NetSum ==
    allok => \A c \in DOMAIN net \cup Described(s) :
                 /\ Refcount(s, c) = NetOf(net, c)
                 /\ Refcount(s, c) >= 0

\* clusters 3 and 4 were allocated by qcow2_alloc_clusters on the image of 3
\* clusters and cluster 3 was freed again, every call without error
C1_Witness ==
    /\ allok
    /\ last.op = "free_clusters"
    /\ 3 \in DOMAIN net /\ NetOf(net, 3) = 0
    /\ NetOf(net, 4) = 1
    /\ NetOf(net, 7) = 0

\* C2: two ranges that qcow2_alloc_clusters returned, neither freed since,
\* never overlap, whatever allocations, frees of other ranges, refcount block
\* bootstraps and table growths happened in between.
C2_NoOverlap ==
    \A a, b \in live : a.id # b.id => a.clusters \cap b.clusters = {}

\* the latest allocation started its scan at or below an earlier range that
\* is still allocated
C2_Witness ==
    /\ last.op = "alloc_clusters"
    /\ \E a, b \in live :
          /\ b.id = nops - 1
          /\ a.id < b.id
          /\ \A c \in a.clusters : last.pre.free_cluster_index <= c

\* C3: every cluster that qcow2_alloc_clusters or qcow2_alloc_clusters_at
\* hands out had refcount 0 right before the successful update that marked
\* it (the update set it to 1), and is none of the clusters taken during the
\* same call for a refcount block or for a new refcount table.
C3_NeverInUse ==
    (last.op \in {"alloc_clusters", "alloc_clusters_at"} /\ last.ret >= 0) =>
        \A c \in Returned :
            /\ LastSetOf(last.log, c) = 1
            /\ Refcount(s, c) = 1
            /\ c \notin TakenForMeta(last.log)

\* an allocation that succeeded after a restart: clusters were taken for
\* metadata during the call
C3_Witness ==
    /\ last.op \in {"alloc_clusters", "alloc_clusters_at"}
    /\ last.ret >= 0
    /\ Returned # {}
    /\ TakenForMeta(last.log) # {}
    /\ EventsOf(last.log, "restart") # {}

C5_NoRestartEscapes ==
    last.op \in {"alloc_clusters", "alloc_clusters_at", "update_cluster_refcount"}
        => last.ret # EAGAIN

\* the event before position i of a log ("none" at its start)
EvBefore(log, i) == IF i > 1 THEN log[i - 1].ev ELSE "none"

\* C6: a refcount table growth writes the new refcount blocks, then the new
\* table, then the header (both fields in one write), then switches the
\* in-memory table, then frees the old table; each write is issued only
\* after every earlier one succeeded.
C6_GrowthOrder ==
    last.op # "open" =>
        \A i \in DOMAIN last.log :
            LET e == last.log[i]
                before == EvBefore(last.log, i)
            IN  /\ e.ev \in {"write_blocks", "write_blocks_fail"}
                       => before = "grow_begin"
                /\ e.ev \in {"write_table", "write_table_fail"}
                       => before = "write_blocks"
                /\ e.ev \in {"write_header", "write_header_fail"}
                       => before = "write_table"
                             /\ EvBefore(last.log, i - 1) = "write_blocks"
                /\ e.ev = "switch_table"
                       => /\ before = "write_header"
                          /\ last.log[i - 1].off = e.off
                          /\ last.log[i - 1].n = size_to_clusters(e.n * 8)
                /\ e.ev = "free_old_table" => before = "switch_table"

\* a growth ran to its end
C6_Witness ==
    /\ last.op # "open"
    /\ EventsOf(last.log, "free_old_table_done") # {}

\* the position of the grow_begin event of the growth that stops at i
BeginOf(log, i) ==
    CHOOSE b \in EventsOf(log, "grow_begin") :
        b < i /\ \A b2 \in EventsOf(log, "grow_begin") : b2 < i => b2 <= b

\* C7: when a refcount table growth stops before the header write has
\* succeeded, the header in the file and the in-memory refcount_table,
\* refcount_table_size and refcount_table_offset are those of the old table,
\* and every nonzero entry of that table points to a refcount block that is
\* written.
C7_StoppedGrowthKeepsOldTable ==
    last.op # "open" =>
        \A i \in EventsOf(last.log, "grow_stop") :
            LET old == last.log[BeginOf(last.log, i)].tab
                now == last.log[i].tab
            IN  /\ now.hdr = old.hdr
                /\ now.disk_table = old.disk_table
                /\ now.table = old.table
                /\ now.size = old.size
                /\ now.offset = old.offset
                /\ now.hdr.refcount_table_offset = now.offset
                /\ now.blocks_written

\* a growth stopped at the header write, the new blocks and table written
C7_Witness ==
    /\ last.op # "open"
    /\ \E i \in EventsOf(last.log, "grow_stop") :
          EvBefore(last.log, i) = "write_header_fail"

\* C8: a refcount table growth keeps every nonzero entry of the old table at
\* its index; the entries of the new block and of the blocks describing the
\* new table land on indexes that were absent or zero.
C8_GrowthKeepsEntries ==
    last.op # "open" =>
        \A i \in EventsOf(last.log, "switch_table") :
            LET new == last.log[i].tab
                old == new.old
            IN  /\ \A k \in 0..(old.size - 1) :
                       old.table[k] # 0 =>
                           k \in DOMAIN new.table /\ new.table[k] = old.table[k]
                /\ \A k \in {new.index} \cup
                             new.blocks_used..(new.blocks_used
                                                  + new.blocks_clusters - 1) :
                       /\ k \in DOMAIN new.table
                       /\ new.table[k] # 0
                       /\ k >= old.size \/ old.table[k] = 0

\* a growth of a table all of whose entries held a refcount block
C8_Witness ==
    /\ last.op # "open"
    /\ \E i \in EventsOf(last.log, "switch_table") :
          \A k \in 0..(last.log[i].tab.old.size - 1) :
              last.log[i].tab.old.table[k] # 0

\* the scenario of C9: 3 clusters are allocated on the empty image, no I/O
\* call fails
C9_Scenario ==
    /\ last.op = "alloc_clusters"
    /\ last.a = 3 * cluster_size
    /\ ~last.failed
    /\ last.pre = EmptyImage(DiscardPassthrough(FALSE, FALSE))

\* the call bootstrapped one refcount block, which describes itself and
\* lies in cluster c, and restarted once
C9_OneBlockAt(c) ==
    /\ Cardinality(EventsOf(last.log, "new_block")) = 1
    /\ Cardinality(EventsOf(last.log, "block_hooked")) = 1
    /\ Cardinality(EventsOf(last.log, "restart")) = 1
    /\ \A i \in EventsOf(last.log, "new_block") :
          /\ last.log[i].off = c * cluster_size
          /\ in_same_refcount_block(last.log[i].off, last.log[i].n * cluster_size)
    /\ s.refcount_table[0] = c * cluster_size
    /\ Refcount(s, c) = 1

\* C9 as claimed: on the empty image, allocating 3 clusters bootstraps one
\* self-describing refcount block in cluster 1, restarts, and returns offset
\* 2 x cluster_size, each of the 3 clusters with refcount 1.
C9_AsClaimed ==
    C9_Scenario =>
        /\ C9_OneBlockAt(1)
        /\ last.ret = 2 * cluster_size
        /\ \A c \in 2..4 : Refcount(s, c) = 1

\* C9 amended: on the empty image, allocating 3 clusters first finds clusters
\* 0..2, bootstraps one self-describing refcount block in cluster 3, behind
\* them, and restarts; the retried allocation returns offset 4 x cluster_size,
\* each of the 3 returned clusters has refcount 1 and clusters 0..2 keep
\* refcount 0.
C9_BootstrapBehind ==
    C9_Scenario =>
        /\ C9_OneBlockAt(3)
        /\ last.ret = 4 * cluster_size
        /\ \A c \in 4..6 : Refcount(s, c) = 1
        /\ \A c \in 0..2 : Refcount(s, c) = 0

C9_Witness == C9_Scenario /\ last.ret >= 0

\* the clusters the last call decremented from 1 to 0
Zeroed ==
    {c \in (IF last.op = "free_clusters" THEN ClustersOf(last.a, last.b)
            ELSE {last.a}) : Refcount(last.pre, c) = 1}

\* the regions of a queue that cover cluster c
Covering(q, c) ==
    {i \in DOMAIN q : /\ q[i].offset <= c * cluster_size
                      /\ (c + 1) * cluster_size <= q[i].offset + q[i].bytes}

\* a call that decremented refcounts and succeeded, so that the
\* qcow2_process_discards call at its end was made with a success status
C10_Decremented ==
    \/ last.op = "free_clusters" /\ last.ret = 0
    \/ last.op = "update_cluster_refcount" /\ last.b < 0 /\ last.ret >= 0

\* C10 as claimed: when a cluster's refcount is decremented from 1 to 0,
\* get_refcount of it returns 0 and, after the next qcow2_process_discards
\* call made with a success status, the discard queue holds exactly one
\* region covering the cluster.
C10_AsClaimed ==
    C10_Decremented =>
        \A c \in Zeroed :
            /\ Refcount(s, c) = 0
            /\ Cardinality(Covering(s.discards, c)) = 1

\* C10 amended: when an update that succeeds, made while discards are not
\* cached, decrements a cluster's refcount from 1 to 0 with a discard type
\* that is passed through, get_refcount of the cluster returns 0, and the
\* qcow2_process_discards call that ends the update finds exactly one
\* region covering the cluster in the queue, hands exactly one such region
\* to bdrv_discard and leaves the queue empty; with a discard type that is
\* not passed through nothing is queued.
C10_DiscardOnZero ==
    C10_Decremented =>
        \A c \in Zeroed :
            /\ Refcount(s, c) = 0
            /\ s.discards = <<>>
            /\ IF last.pre.discard_passthrough[last.type]
               THEN /\ Cardinality(Covering(last.discarded, c)) = 1
                    /\ \E i \in EventsOf(last.log, "process_discards") :
                          /\ last.log[i].off >= 0
                          /\ Cardinality(Covering(last.log[i].tab, c)) = 1
               ELSE last.discarded = <<>>

\* a free of a cluster with refcount 1 whose discard type is passed through
C10_Witness ==
    /\ C10_Decremented
    /\ Zeroed # {}
    /\ last.pre.discard_passthrough[last.type]

\* every counter of the refcount blocks, cached or in the file, of S is
\* within 0..0xffff
CountersInRange(S) ==
    /\ \A o \in DOMAIN S.blocks : \A i \in DOMAIN S.blocks[o] :
           S.blocks[o][i] \in 0..REFCOUNT_MAX
    /\ \A o \in DOMAIN S.disk_blocks : \A i \in DOMAIN S.disk_blocks[o] :
           S.disk_blocks[o][i] \in 0..REFCOUNT_MAX

\* the clusters and the addend of the update_refcount call the last
\* operation made
UpdatedRange ==
    IF last.op = "free_clusters" THEN ClustersOf(last.a, last.b) ELSE {last.a}

UpdateAddend == IF last.op = "free_clusters" THEN -1 ELSE last.b

\* the clusters of that call whose new count would leave 0..0xffff, when
\* the call reached them: no I/O call failed and the refcount block of every
\* cluster of the range was there
OutOfRange ==
    IF /\ last.op \in {"free_clusters", "update_cluster_refcount"}
       /\ ~last.failed
       /\ \A c \in UpdatedRange : ReadsBlock(last.pre, c)
    THEN {c \in UpdatedRange :
             Counter(last.pre, c) + UpdateAddend \notin 0..REFCOUNT_MAX}
    ELSE {}

\* C11: every refcount counter stays within 0..0xffff; an update_refcount
\* step whose result would be below 0 or above 0xffff makes update_refcount
\* return -EINVAL and leaves that counter at its previous value.
C11_CountersBounded ==
    /\ CountersInRange(s)
    /\ last.op # "open" /\ OutOfRange # {} =>
           /\ last.ret = EINVAL
           /\ \A c \in OutOfRange : Counter(s, c) = Counter(last.pre, c)

\* a counter at 0xffff was to be incremented
C11_Witness ==
    /\ last.op = "update_cluster_refcount"
    /\ last.b = 1
    /\ OutOfRange = {last.a}
    /\ Counter(last.pre, last.a) = REFCOUNT_MAX

\* the clusters get_refcount is asked about: below, at and beyond the end of
\* the refcount table
GetProbe == 0..(3 * refcount_block_size)

\* get_refcount of cluster c in state S, the first read of the cache made to
\* fail or not
GetIn(S, c, fails) ==
    GetRefcount(Begin(S, IF fails THEN "cache_get" ELSE "none",
                      IF fails THEN 1 ELSE 0), c)

\* C12: get_refcount returns 0 without any get or put of the metadata cache
\* when the table index of the cluster is at or beyond refcount_table_size,
\* or when the refcount table entry at that index is 0.
C12_AbsentIsFreeWithoutCache ==
    \A c \in GetProbe, fails \in BOOLEAN :
        LET i == c \div refcount_block_size
        IN  (i >= s.refcount_table_size \/ s.refcount_table[i] = 0) =>
                /\ GetIn(s, c, fails).ret = 0
                /\ GetIn(s, c, fails).s.cache_ops = 0
                /\ GetIn(s, c, fails).s.blocks = s.blocks
                /\ GetIn(s, c, fails).s.refs = s.refs

\* get_refcount was called for a cluster whose table entry is 0, and for one
\* beyond the table, with a failure of the cache planned
C12_Witness ==
    /\ last.op = "get_refcount"
    /\ last.ret = 0
    /\ last.cache_ops = 0
    /\ last.a \div refcount_block_size < last.pre.refcount_table_size
    /\ last.pre.refcount_table[last.a \div refcount_block_size] = 0
    /\ \E c \in GetProbe : c \div refcount_block_size >= s.refcount_table_size

\* the counters of every refcount block of S, as the cache and the file
\* hold them
CountersOf(S) ==
    [o \in DOMAIN S.blocks \cup DOMAIN S.disk_blocks |->
        IF o \in DOMAIN S.blocks THEN S.blocks[o] ELSE S.disk_blocks[o]]

\* get_refcount of any cluster, whatever it returns, leaves the refcount
\* table, the counters, free_cluster_index and the discard queue of S alone
GetLeavesAlone(S) ==
    \A c \in GetProbe, fails \in BOOLEAN :
        LET T == GetIn(S, c, fails).s
        IN  /\ T.refcount_table = S.refcount_table
            /\ T.refcount_table_size = S.refcount_table_size
            /\ T.refcount_table_offset = S.refcount_table_offset
            /\ T.free_cluster_index = S.free_cluster_index
            /\ T.discards = S.discards
            /\ T.disk_blocks = S.disk_blocks
            /\ T.disk_tables = S.disk_tables
            /\ T.dirty = S.dirty
            /\ \A o \in DOMAIN CountersOf(S) : CountersOf(T)[o] = CountersOf(S)[o]
            /\ \A o \in DOMAIN T.blocks \ DOMAIN CountersOf(S) :
                   T.blocks[o] = ZeroBlock

\* the states in the middle of a refcount block bootstrap of the last
\* operation: the new block is allocated and not yet counted or hooked in
MidBootstrap ==
    IF last.op = "open" THEN {}
    ELSE {last.log[i].tab : i \in EventsOf(last.log, "new_block")}

\* C13: get_refcount leaves the refcount table, every refcount counter,
\* free_cluster_index and the discard queue unchanged, for every input and
\* every outcome (a count, 0 or an error), also when it is called in the
\* middle of a refcount block bootstrap.
C13_GetRefcountReadsOnly ==
    /\ GetLeavesAlone(s)
    /\ \A S \in MidBootstrap : GetLeavesAlone(S)

\* get_refcount can return a count, 0 and an error in the middle of a
\* bootstrap, while a discard is queued or the cache holds changed counters
C13_Witness ==
    \E S \in MidBootstrap :
        /\ \E c \in GetProbe : GetIn(S, c, FALSE).ret > 0
        /\ \E c \in GetProbe : GetIn(S, c, TRUE).ret < 0
        /\ \E c \in GetProbe : GetIn(S, c, TRUE).ret = 0
        /\ S.level > 1

\* the refcount table entry that covers cluster c of S is nonzero and not
\* cluster aligned
EntryUnaligned(S, c) ==
    /\ c \div refcount_block_size < S.refcount_table_size
    /\ S.refcount_table[c \div refcount_block_size] # 0
    /\ offset_into_cluster(S.refcount_table[c \div refcount_block_size]) # 0

\* C14: when the refcount table entry covering a cluster is nonzero and not
\* cluster aligned, get_refcount signals a corruption and returns -EIO
\* without reading a refcount block, and update_refcount on that cluster
\* returns -EIO as well and changes no counter.
C14_UnalignedEntryIsRefused ==
    /\ \A c \in GetProbe, fails \in BOOLEAN :
           EntryUnaligned(s, c) =>
               /\ GetIn(s, c, fails).ret = EIO
               /\ GetIn(s, c, fails).s.corrupt
               /\ GetIn(s, c, fails).s.cache_ops = 0
               /\ GetIn(s, c, fails).s.blocks = s.blocks
    /\ (/\ last.op = "update_cluster_refcount"
        /\ ~last.failed
        /\ EntryUnaligned(last.pre, last.a)) =>
           /\ last.ret = EIO
           /\ CountersOf(s) = CountersOf(last.pre)


\* the extents <<first byte, length>> of the metadata of one kind in image S
Extents(S, kind) ==
    CASE kind = "MAIN_HEADER" -> {<<0, cluster_size>>}
      [] kind = "ACTIVE_L1" -> {<<S.l1_table_offset, S.l1_size * 8>>}
      [] kind = "REFCOUNT_TABLE" ->
             {<<S.refcount_table_offset, S.refcount_table_size * 8>>}
      [] kind = "SNAPSHOT_TABLE" -> {<<S.snapshots_offset, S.snapshots_size>>}
      [] kind = "INACTIVE_L1" ->
             {<<S.snapshots[i].l1_table_offset, S.snapshots[i].l1_size * 8>> :
                 i \in DOMAIN S.snapshots}
      [] kind = "ACTIVE_L2" ->
             {<<L1eOffsetMask(S.l1_table[i]), cluster_size>> :
                 i \in {j \in 1..S.l1_size : L1eOffsetMask(S.l1_table[j]) # 0}}
      [] kind = "REFCOUNT_BLOCK" ->
             {<<ReftOffsetMask(S.refcount_table[i]), cluster_size>> :
                 i \in {j \in DOMAIN S.refcount_table :
                           ReftOffsetMask(S.refcount_table[j]) # 0}}
      [] kind = "INACTIVE_L2" ->
             UNION {{<<L1eOffsetMask(S.disk_l1[S.snapshots[i].l1_table_offset][j]),
                       cluster_size>> :
                        j \in {k \in 1..S.snapshots[i].l1_size :
                                  L1eOffsetMask(
                                      S.disk_l1[S.snapshots[i].l1_table_offset][k])
                                      # 0}} :
                    i \in DOMAIN S.snapshots}

\* the bytes of an extent, and of the clusters a range touches
BytesOf(e) == e[1]..(e[1] + e[2] - 1)
RoundedBytes(offset, size) ==
    start_of_cluster(offset)..
        (((offset + size - 1) \div cluster_size) * cluster_size + cluster_size - 1)

\* the cluster-rounded range touches metadata of this kind
Touches(S, kind, offset, size) ==
    \E e \in Extents(S, kind) :
        BytesOf(e) \cap RoundedBytes(offset, size) # {}

\* the range lies fully inside the refcount table
InsideTable(S, offset, size) ==
    /\ size > 0
    /\ S.refcount_table_offset <= offset
    /\ offset + size <= S.refcount_table_offset + S.refcount_table_size * 8

\* the cluster-rounded range lies outside all tracked metadata
OutsideAll(S, offset, size) ==
    size > 0 /\ \A kind \in OlKindSet : ~Touches(S, kind, offset, size)

OverlapChecked == last.op = "check_metadata_overlap"

\* C15 as claimed: qcow2_check_metadata_overlap returns the refcount-table tag
\* for every non-empty range fully inside the refcount table's extent, and 0
\* for every range whose cluster-rounded extent lies outside all tracked
\* metadata.
C15_AsClaimed ==
    OverlapChecked =>
        /\ InsideTable(last.pre, last.a, last.b)
               => last.ret = QCOW2_OL("REFCOUNT_TABLE")
        /\ OutsideAll(last.pre, last.a, last.b) => last.ret = 0

\* C15: qcow2_check_metadata_overlap returns the refcount-table tag for every
\* non-empty range fully inside the refcount table's extent that touches
\* neither the header cluster nor the active L1 table, provided the
\* refcount-table check is enabled in s->overlap_check and not set in the
\* ignore mask; it returns 0 for every range whose cluster-rounded extent lies
\* outside all tracked metadata, unless reading an inactive L1 table fails.
C15_TableTagAndNoOverlap ==
    OverlapChecked =>
        /\ ( /\ InsideTable(last.pre, last.a, last.b)
             /\ "REFCOUNT_TABLE" \in last.pre.overlap_check \ last.ign
             /\ ~Touches(last.pre, "MAIN_HEADER", last.a, last.b)
             /\ ~Touches(last.pre, "ACTIVE_L1", last.a, last.b) )
               => last.ret = QCOW2_OL("REFCOUNT_TABLE")
        /\ (OutsideAll(last.pre, last.a, last.b) /\ ~last.failed)
               => last.ret = 0

\* a check of a range inside the refcount table, not aligned to a cluster
\* boundary, answered with the refcount-table tag while another check is
\* ignored
C15_Witness ==
    /\ OverlapChecked
    /\ InsideTable(last.pre, last.a, last.b)
    /\ last.a % cluster_size # 0
    /\ last.ign = {"REFCOUNT_BLOCK"}
    /\ last.ret = QCOW2_OL("REFCOUNT_TABLE")

\* a check of a range past the end of the image, on an image with a snapshot
\* and every check enabled, answered with 0
C15_WitnessOutside ==
    /\ OverlapChecked
    /\ OutsideAll(last.pre, last.a, last.b)
    /\ last.pre.snapshots # <<>>
    /\ last.pre.overlap_check = OlKindSet
    /\ last.ign = {}
    /\ last.ret = 0

\* what the check of the last call answers when nothing is ignored
Unignored ==
    qcow2_check_metadata_overlap(Begin(last.pre, last.plan[1], last.plan[2]),
                                 {}, last.a, last.b).ret

\* C16 as claimed: qcow2_check_metadata_overlap never returns a tag whose bit
\* is set in the ignore mask, and setting one section's bit in the mask does
\* not change the result for a range that overlaps only sections of other
\* kinds.
C16_AsClaimed ==
    OverlapChecked =>
        /\ \A k \in last.ign : last.ret # QCOW2_OL(k)
        /\ \A k \in OlKindSet :
               (last.ign = {k} /\ ~Touches(last.pre, k, last.a, last.b))
                   => last.ret = Unignored

\* C16: qcow2_check_metadata_overlap never returns a tag whose bit is set in
\* the ignore mask, and setting one section's bit in the mask does not change
\* the result for a range that overlaps only sections of other kinds, except
\* that setting the inactive-L2 bit skips the reads of the inactive L1 tables,
\* so that a check which would fail with the error of such a read gives the
\* result of the remaining checks instead.
C16_IgnoreMaskIsSelective ==
    OverlapChecked =>
        /\ \A k \in last.ign : last.ret # QCOW2_OL(k)
        /\ \A k \in OlKindSet :
               ( /\ last.ign = {k}
                 /\ ~Touches(last.pre, k, last.a, last.b)
                 /\ ~(k = "INACTIVE_L2" /\ Unignored < 0) )
                   => last.ret = Unignored

\* a range over the refcount table and a refcount block, checked with the
\* refcount table ignored: the answer is the tag of the refcount block
C16_Witness ==
    /\ OverlapChecked
    /\ last.ign = {"REFCOUNT_TABLE"}
    /\ Touches(last.pre, "REFCOUNT_TABLE", last.a, last.b)
    /\ Unignored = QCOW2_OL("REFCOUNT_TABLE")
    /\ last.ret = QCOW2_OL("REFCOUNT_BLOCK")

\* a range over the active L2 table only, checked with another section
\* ignored: the answer is the tag of the active L2 table, as without the mask
C16_WitnessOther ==
    /\ OverlapChecked
    /\ last.ign = {"ACTIVE_L1"}
    /\ ~Touches(last.pre, "ACTIVE_L1", last.a, last.b)
    /\ Unignored = QCOW2_OL("ACTIVE_L2")
    /\ last.ret = QCOW2_OL("ACTIVE_L2")

\* the result of the check the last qcow2_pre_write_overlap_check made
CheckOfPreWrite ==
    qcow2_check_metadata_overlap(Begin(last.pre, last.plan[1], last.plan[2]),
                                 last.ign, last.a, last.b).ret

PreWriteChecked == last.op = "pre_write_overlap_check"

\* C17: qcow2_pre_write_overlap_check returns 0 exactly when
\* qcow2_check_metadata_overlap reports no overlap; when an overlap is
\* reported it marks the image corrupted and returns -EIO; when the check
\* fails with a negative error, that error is returned and the image is not
\* marked corrupted.
C17_PreWriteCheck ==
    PreWriteChecked =>
        /\ (last.ret = 0) <=> (CheckOfPreWrite = 0)
        /\ CheckOfPreWrite > 0 => (s.corrupt /\ last.ret = EIO)
        /\ CheckOfPreWrite < 0 => (last.ret = CheckOfPreWrite /\ ~s.corrupt)

\* a pre-write check whose read of an inactive L1 table failed: the error is
\* returned and the image is not marked corrupted
C17_Witness ==
    /\ PreWriteChecked
    /\ last.failed
    /\ CheckOfPreWrite < 0
    /\ last.ret = CheckOfPreWrite
    /\ ~s.corrupt

\* a pre-write check of a range over the active L1 table: the image is marked
\* corrupted
C17_WitnessOverlap ==
    /\ PreWriteChecked
    /\ CheckOfPreWrite = QCOW2_OL("ACTIVE_L1")
    /\ last.ret = EIO
    /\ s.corrupt
    /\ ~last.pre.corrupt

\* the refcount table, the counters and the mapping entries of image S
Stored(S) ==
    [refcount_table |-> S.refcount_table,
     refcount_table_offset |-> S.refcount_table_offset,
     refcount_table_size |-> S.refcount_table_size,
     hdr |-> S.hdr, disk_tables |-> S.disk_tables,
     counters |-> CountersOf(S),
     l1_table |-> S.l1_table, disk_l1 |-> S.disk_l1, disk_l2 |-> S.disk_l2]

Checked == last.op = "check_refcounts"

\* the last two operations were checks in report-only mode, made under the
\* same conditions
ReportedTwice ==
    /\ Checked
    /\ last.fix = {}
    /\ last.before.op = "check_refcounts"
    /\ last.before.fix = {}
    /\ last.plan = last.before.plan

\* the image is one of the consistent images
Consistent(S) ==
    \E snap \in BOOLEAN :
        S = MappedImage(snap, OlKindSet \ {"INACTIVE_L2"},
                        DiscardPassthrough(FALSE, FALSE))

\* C18: two consecutive qcow2_check_refcounts runs in report-only mode, with
\* no mutation in between, produce identical reports, and a report-only run
\* leaves the refcount table, all counters and all mapping entries unchanged;
\* on a consistent image both runs report zero corruptions and zero leaks.
C18_ReportOnlyIsRepeatable ==
    /\ (Checked /\ last.fix = {}) => Stored(s) = Stored(last.pre)
    /\ ReportedTwice =>
           /\ last.res = last.before.res
           /\ last.ret = last.before.ret
           /\ Consistent(last.before.pre) =>
                  /\ last.res.corruptions = 0 /\ last.res.leaks = 0
                  /\ last.before.res.corruptions = 0
                  /\ last.before.res.leaks = 0

\* two report-only checks of a consistent image with a snapshot, every read
\* succeeding: both ran to the end
C18_Witness ==
    /\ ReportedTwice
    /\ ~last.failed
    /\ last.ret = 0
    /\ last.before.pre = MappedImage(TRUE, OlKindSet \ {"INACTIVE_L2"},
                                     DiscardPassthrough(FALSE, FALSE))
    /\ last.res = last.before.res
    /\ last.res.image_end_offset = 10 * cluster_size

\* two report-only checks of an image with an overwritten refcount: both
\* report the same corruption
C18_WitnessDamaged ==
    /\ ReportedTwice
    /\ ~last.failed
    /\ last.res.corruptions > 0
    /\ last.res = last.before.res

\* the image is one on which a stored refcount was overwritten so that it
\* differs from the true reference count
Overwritten(S) ==
    \E snap \in BOOLEAN, c \in OverwrittenClusters, v \in OverwrittenValues :
        /\ v # Refcount(MappedImage(snap, {}, DiscardPassthrough(FALSE, FALSE)),
                        c)
        /\ S = OverwrittenImage(snap, c, v)

\* C19: on an image on which a stored refcount was overwritten,
\* qcow2_check_refcounts in fix-errors mode, no I/O call failing, ends with
\* zero unfixed corruptions, and a following report-only run reports zero
\* corruptions.
C19_FixErrorsLeavesNoCorruption ==
    /\ ( /\ Checked
         /\ "ERRORS" \in last.fix
         /\ ~last.failed
         /\ Overwritten(last.pre) )
           => (last.ret = 0 /\ last.res.corruptions = 0)
    /\ ( /\ Checked
         /\ last.fix = {}
         /\ ~last.failed
         /\ last.before.op = "check_refcounts"
         /\ "ERRORS" \in last.before.fix
         /\ ~last.before.failed
         /\ Overwritten(last.before.pre) )
           => (last.ret = 0 /\ last.res.corruptions = 0)

\* a report-only check after a check in fix-errors mode that repaired a
\* refcount which had been overwritten with a lower value
C19_Witness ==
    /\ Checked
    /\ last.fix = {}
    /\ ~last.failed
    /\ last.before.op = "check_refcounts"
    /\ last.before.fix = {"ERRORS"}
    /\ ~last.before.failed
    /\ Overwritten(last.before.pre)
    /\ last.before.res.corruptions_fixed > 0
    /\ last.res.corruptions = 0

\* C20: in compare_refcounts, a cluster whose stored refcount is lower than
\* the computed count is reported as a corruption and one whose stored
\* refcount is higher as a leak; fix-leaks mode repairs only leaks and
\* fix-errors mode repairs only corruptions, and a repaired cluster ends with
\* its stored refcount equal to the computed count.
C20_CompareClassifiesAndRepairs ==
    Checked =>
        \A i \in EventsOf(last.log, "mismatch") :
            LET e == last.log[i]
            IN  /\ e.n < e.tab.computed
                       => e.tab.counted \in {"corruptions", "corruptions_fixed"}
                /\ e.n > e.tab.computed
                       => e.tab.counted \in {"leaks", "leaks_fixed"}
                /\ e.tab.fix = {"LEAKS"} => e.tab.counted # "corruptions_fixed"
                /\ e.tab.fix = {"ERRORS"} => e.tab.counted # "leaks_fixed"
                /\ e.tab.fix = {}
                       => e.tab.counted \in {"corruptions", "leaks"}
                /\ e.tab.counted \in {"corruptions_fixed", "leaks_fixed"}
                       => Refcount(s, e.off) = e.tab.computed

\* a comparison in fix-leaks mode repaired a leak: the stored refcount, which
\* was higher than the computed count, now equals it
C20_Witness ==
    /\ Checked
    /\ \E i \in EventsOf(last.log, "mismatch") :
          /\ last.log[i].tab.fix = {"LEAKS"}
          /\ last.log[i].tab.counted = "leaks_fixed"
          /\ Refcount(s, last.log[i].off) = last.log[i].tab.computed
          /\ Refcount(last.pre, last.log[i].off) > last.log[i].tab.computed

\* a comparison in fix-errors mode repaired a corruption
C20_WitnessCorruption ==
    /\ Checked
    /\ \E i \in EventsOf(last.log, "mismatch") :
          /\ last.log[i].tab.fix = {"ERRORS"}
          /\ last.log[i].tab.counted = "corruptions_fixed"
          /\ Refcount(s, last.log[i].off) = last.log[i].tab.computed
          /\ Refcount(last.pre, last.log[i].off) < last.log[i].tab.computed

\* a comparison in fix-errors mode left a leak, one in fix-leaks mode a
\* corruption
C20_WitnessLeft ==
    /\ Checked
    /\ \E i \in EventsOf(last.log, "mismatch") :
          \/ /\ last.log[i].tab.fix = {"ERRORS"}
             /\ last.log[i].tab.counted = "leaks"
          \/ /\ last.log[i].tab.fix = {"LEAKS"}
             /\ last.log[i].tab.counted = "corruptions"

\* the regions the bdrv_discard calls of a trace were made for, in order
Forwarded(log) ==
    LET calls == SelectSeq(log, LAMBDA e : e.ev = "bdrv_discard")
    IN  [i \in DOMAIN calls |-> [offset |-> calls[i].off, bytes |-> calls[i].n]]

\* the qcow2_process_discards call logged at index i handed its queue on
\* exactly when its ret was not negative: the bdrv_discard calls that follow
\* it (each with the record of the counters it found) are those of its
\* regions, one each and in order, or there is none
DrainedAt(log, i) ==
    LET e == log[i]
    IN  IF e.off >= 0
        THEN /\ i + 2 * e.n <= Len(log)
             /\ \A k \in 1..e.n :
                   /\ log[i + 2 * k - 1].ev = "bdrv_discard"
                   /\ log[i + 2 * k - 1].off = e.tab[k].offset
                   /\ log[i + 2 * k - 1].n = e.tab[k].bytes
                   /\ log[i + 2 * k].ev = "forwarded"
             /\ i + 2 * e.n < Len(log) =>
                   log[i + 2 * e.n + 1].ev # "bdrv_discard"
        ELSE i < Len(log) => log[i + 1].ev # "bdrv_discard"

\* what a call leaves when no bdrv_discard fails
WithoutDiscardFailure ==
    LET S == Begin(last.pre, "none", 0)
    IN  IF last.op = "process_discards" THEN R(ProcessDiscards(S, last.a), 0)
        ELSE qcow2_free_clusters(S, last.a, last.b, last.type)

\* C21: qcow2_process_discards(ret) leaves the discard queue empty for every
\* value of ret and hands each queued region to bdrv_discard exactly when
\* ret >= 0, as a caller's call and as the call that ends update_refcount
\* while discards are not cached; a failing bdrv_discard changes neither
\* what becomes of the queue nor the state and the return value of the call.
C21_DiscardsDrainedBestEffort ==
    last.op \in {"process_discards", "free_clusters"} =>
        /\ \A i \in EventsOf(last.log, "process_discards") :
              DrainedAt(last.log, i)
        /\ last.discarded = Forwarded(last.log)
        /\ last.op = "process_discards" =>
              /\ s.discards = <<>>
              /\ last.discarded = IF last.a >= 0 THEN last.pre.discards
                                  ELSE <<>>
        /\ (last.op = "free_clusters" /\ ~last.pre.cache_discards) =>
              s.discards = <<>>
        /\ last.failed =>
              /\ s = End(WithoutDiscardFailure.s)
              /\ last.ret = WithoutDiscardFailure.ret
              /\ last.discarded = WithoutDiscardFailure.s.discarded

\* a caller's qcow2_process_discards with a success status found two regions
\* queued and the backend failed to discard one of them
C21_Witness ==
    /\ last.op = "process_discards"
    /\ last.a >= 0
    /\ Len(last.pre.discards) = 2
    /\ last.failed

\* a caller's qcow2_process_discards with an error status found regions queued
C21_WitnessDropped ==
    /\ last.op = "process_discards"
    /\ last.a < 0
    /\ last.pre.discards # <<>>

\* the backend failed to discard a region of a free that was not cached
C21_WitnessEngine ==
    /\ last.op = "free_clusters"
    /\ last.failed
    /\ last.ret = 0

\* C22: a successful qcow2_alloc_bytes registers, after the refcount
\* updates it made and before it returns, that the refcount block cache is
\* flushed before the L2 table cache; qcow2_update_snapshot_refcount with a
\* positive addend registers it before each L2 entry it changes.
C22_IncrementOrdersRefcountFirst ==
    /\ (last.op = "alloc_bytes" /\ last.ret >= 0) =>
          /\ <<"l2", "refcount">> \in s.deps
          /\ \E d \in EventsOf(last.log, "dep_l2_on_refcount") :
                \A i \in EventsOf(last.log, "set_refcount") : i < d
    /\ (last.op = "update_snapshot_refcount" /\ last.b > 0) =>
          \A i \in EventsOf(last.log, "l2_entry_set") :
              /\ i > 1
              /\ last.log[i - 1].ev = "dep_l2_on_refcount"

\* a snapshot was taken of a mapping whose data cluster had one reference:
\* its L2 entry lost the copied flag
C22_Witness ==
    /\ last.op = "update_snapshot_refcount"
    /\ last.b > 0
    /\ EventsOf(last.log, "l2_entry_set") # {}

\* bytes were allocated in a cluster that holds bytes allocated before
C22_WitnessBytes ==
    /\ last.op = "alloc_bytes"
    /\ last.ret >= 0
    /\ offset_into_cluster(last.ret) # 0
    /\ EventsOf(last.log, "set_refcount") # {}

\* the update_refcount call logged at index i registered the dependency
\* "L2 tables before refcount blocks" as its first step
DependsOnL2At(log, i) ==
    /\ i < Len(log)
    /\ log[i + 1].ev = "dep_refcount_on_l2"

\* the calls of update_refcount with a negative addend that undo a failed
\* update: the "undo" step holds the length and the addend of the call
UndoCalls(log) ==
    {i \in EventsOf(log, "undo") : log[i].tab.addend < 0 /\ log[i].n # 0}

\* C23 as claimed: every update_refcount call with a negative addend and a
\* nonzero length registers, before it changes any counter, that the L2
\* table cache is flushed before the refcount block cache.
C23_AsClaimed ==
    last.op # "open" =>
        /\ \A i \in EventsOf(last.log, "update_refcount") :
              last.log[i].n < 0 => DependsOnL2At(last.log, i)
        /\ \A i \in UndoCalls(last.log) :
              /\ i < Len(last.log)
              /\ last.log[i + 1].ev = "update_refcount"
              /\ DependsOnL2At(last.log, i + 1)

\* C23 amended: every update_refcount call with a negative addend and a
\* positive length registers the dependency before it changes any counter;
\* a call with a negative length (the undo of an update that failed at its
\* first cluster, begun inside that cluster) returns -EINVAL, registers
\* nothing and changes no counter.
C23_DecrementOrdersL2First ==
    last.op # "open" =>
        /\ \A i \in EventsOf(last.log, "update_refcount") :
              last.log[i].n < 0 => DependsOnL2At(last.log, i)
        /\ \A i \in UndoCalls(last.log) :
              /\ i < Len(last.log)
              /\ IF last.log[i].n > 0
                 THEN /\ last.log[i + 1].ev = "update_refcount"
                      /\ DependsOnL2At(last.log, i + 1)
                 ELSE /\ last.log[i + 1].ev = "undo_done"
                      /\ last.log[i + 1].n = EINVAL

\* a decrement registered the dependency and then changed a counter
C23_Witness ==
    /\ last.op # "open"
    /\ \E i \in EventsOf(last.log, "update_refcount") :
          /\ last.log[i].n < 0
          /\ i + 2 <= Len(last.log)
          /\ last.log[i + 2].ev = "set_refcount"

\* an increment of compressed data failed at its first cluster and was undone
\* by a call with a negative length
C23_WitnessNegativeLength ==
    /\ last.op # "open"
    /\ \E i \in UndoCalls(last.log) : last.log[i].n < 0

\* the latest of a set of steps
Latest(I) == CHOOSE i \in I : \A j \in I : j <= i

\* for the update_refcount call whose undo ended at step d of the trace: the
\* step u where its undo began and the step b where the call began
UndoOf(log, d) ==
    Latest({i \in EventsOf(log, "undo") :
               i < d /\ log[i].tab.level = log[d].tab.level})
CallOf(log, d) ==
    Latest({i \in EventsOf(log, "update_refcount") :
               i < UndoOf(log, d) /\ log[i].tab = log[d].tab.level})

\* the steps between i and j at which a call of the given level set a counter
SetBetween(log, i, j, level) ==
    {k \in EventsOf(log, "set_refcount") :
        i < k /\ k < j /\ log[k].tab = level}

\* the update_refcount calls of the last operation that failed at a cluster
\* of a range of several clusters, as the steps where their undo ended
FailedInRange ==
    IF last.op = "open" THEN {}
    ELSE {d \in EventsOf(last.log, "undo_done") :
             Cardinality(DOMAIN last.log[d].tab.before) > 1}

\* the undo of the call applied the inverse addend to exactly the clusters
\* the loop of the call had updated, once each
UndoesTheUpdated(log, d) ==
    LET u == UndoOf(log, d)
        b == CallOf(log, d)
        level == log[d].tab.level
        updated == {log[k].off : k \in SetBetween(log, b, u, level)}
        range == IF log[u].n > 0 THEN ClustersOf(log[u].off, log[u].n) ELSE {}
    IN  /\ log[u].tab.addend = -log[b].n
        /\ range = updated
        /\ log[d].n = 0 =>
              \A c \in updated :
                  Cardinality({k \in SetBetween(log, u, d, level) :
                                  log[k].off = c}) = 1

\* C24 as claimed: when update_refcount fails at some cluster of a range of
\* several clusters it applies the inverse addend to exactly the clusters it
\* had updated, so that, if the undo succeeds, every cluster of the range
\* has the refcount it had before the call.
C24_AsClaimed ==
    \A d \in FailedInRange :
        /\ UndoesTheUpdated(last.log, d)
        /\ last.log[d].n = 0 =>
              \A c \in DOMAIN last.log[d].tab.before :
                  last.log[d].tab.after[c] = last.log[d].tab.before[c]

\* the clusters that the refcount blocks and tables made while the call
\* whose undo ended at step d ran were placed in
PlacedDuring(log, d) ==
    LET during == SubSeq(log, CallOf(log, d), d)
    IN  {during[k].off \div cluster_size : k \in EventsOf(during, "new_block")}
        \cup TakenForMeta(during)

\* C24 amended: when update_refcount fails at some cluster of a range of
\* several clusters it applies the inverse addend to exactly the clusters
\* its loop had updated, once each; if the undo succeeds, every cluster of
\* the range has the refcount it had before the call, except a cluster in
\* which a refcount block allocated during the call was placed (the cluster
\* at which an increment stopped, or a cluster the call had just freed).
C24_UndoRestoresUpdated ==
    \A d \in FailedInRange :
        /\ UndoesTheUpdated(last.log, d)
        /\ last.log[d].n = 0 =>
              \A c \in DOMAIN last.log[d].tab.before
                           \ PlacedDuring(last.log, d) :
                  last.log[d].tab.after[c] = last.log[d].tab.before[c]

\* an update of several clusters failed after its loop had updated one, and
\* the undo succeeded
C24_Witness ==
    \E d \in FailedInRange :
        /\ last.log[d].n = 0
        /\ SetBetween(last.log, CallOf(last.log, d), UndoOf(last.log, d),
                      last.log[d].tab.level) # {}
        /\ SetBetween(last.log, UndoOf(last.log, d), d,
                      last.log[d].tab.level) # {}

\* the new refcount block was placed in the cluster at which the update
\* stopped
C24_WitnessPlaced ==
    \E d \in FailedInRange :
        /\ last.op = "alloc_clusters_at"
        /\ last.log[d].n = 0
        /\ DOMAIN last.log[d].tab.before \cap PlacedDuring(last.log, d) # {}

\* the calls of update_refcount of a run, by the place of their record
UpdateCalls(log) == EventsOf(log, "update_refcount")

\* the calls with which alloc_refcount_block counts the cluster of a block
\* it has just allocated (the else branch of the self-description test)
BlockCalls(log) ==
    {i \in UpdateCalls(log) : i > 1 /\ log[i - 1].ev = "new_block"}

\* the calls with which alloc_refcount_block releases the old refcount
\* table after a growth
ReleaseCalls(log) ==
    {i \in UpdateCalls(log) : i > 1 /\ log[i - 1].ev = "free_old_table"}

\* C25 as claimed: the mutual recursion update_refcount ->
\* alloc_refcount_block -> update_refcount never nests deeper than 2
\* recursive levels below the initial update_refcount call (level 1).
C25_AsClaimed ==
    last.op # "open" =>
        /\ last.max_level <= 3
        /\ \A i \in UpdateCalls(last.log) : last.log[i].tab <= 3

\* C25 amended: the calls of update_refcount with which alloc_refcount_block
\* counts a newly allocated block never nest deeper than 2 recursive levels
\* below the initial call; the only call one level deeper is the release of
\* the old refcount table after a growth of the table at that depth, and no
\* call nests deeper than that.
C25_RecursionBounded ==
    last.op # "open" =>
        /\ last.max_level <= 4
        /\ \A i \in UpdateCalls(last.log) :
              /\ last.log[i].tab <= 4
              /\ i \in BlockCalls(last.log) => last.log[i].tab <= 3
              /\ last.log[i].tab = 4 => i \in ReleaseCalls(last.log)

\* the block of a block of the target was counted 2 levels below the
\* initial call
C25_Witness ==
    /\ last.op # "open"
    /\ \E i \in BlockCalls(last.log) : last.log[i].tab = 3

\* the old table was released 3 levels below the initial call
C25_WitnessRelease ==
    /\ last.op # "open"
    /\ last.max_level = 4
    /\ \E i \in ReleaseCalls(last.log) : last.log[i].tab = 4

Earliest(I) == CHOOSE i \in I : \A j \in I : i <= j

\* for the block that alloc_refcount_block allocated at step i of the trace:
\* the step where the update_refcount call that asked for it began, and the
\* steps where a call of that level began to undo
AskedBy(log, i) == Latest({b \in UpdateCalls(log) : b < i})
UndoneAfter(log, i) ==
    {u \in EventsOf(log, "undo") :
        u > i /\ log[u].tab.level = log[AskedBy(log, i)].tab}

\* the steps between i and j at which the block allocated at step i was put
\* into the refcount table
HookedBetween(log, i, j) ==
    {h \in EventsOf(log, "block_hooked") :
        i < h /\ h < j /\ log[h].off = log[i].off}

\* C26: alloc_refcount_block returns success only when the refcount block
\* of the cluster already existed: whenever it allocates a new block the
\* update_refcount call that asked for it fails, with -EAGAIN when the block
\* was put into a free slot of the table or into a grown table, and that
\* call sets no counter after the allocation, in particular not the counter
\* of the cluster the block was allocated for.
C26_NewBlockRestarts ==
    last.op # "open" =>
        \A i \in EventsOf(last.log, "new_block") :
            /\ UndoneAfter(last.log, i) # {}
            /\ LET u == Earliest(UndoneAfter(last.log, i))
                   b == AskedBy(last.log, i)
               IN  /\ last.log[u].tab.ret < 0
                   /\ HookedBetween(last.log, i, u) # {}
                          => last.log[u].tab.ret = EAGAIN
                   /\ SetBetween(last.log, i, u, last.log[b].tab) = {}
                   /\ \A k \in SetBetween(last.log, b, u, last.log[b].tab) :
                          last.log[k].off # last.log[i].n

\* a new block was put into a free slot of the refcount table, and the
\* caller restarted and then set the counter
C26_Witness ==
    /\ last.op # "open"
    /\ EventsOf(last.log, "switch_table") = {}
    /\ \E i \in EventsOf(last.log, "new_block") :
          /\ UndoneAfter(last.log, i) # {}
          /\ HookedBetween(last.log, i, Earliest(UndoneAfter(last.log, i))) # {}
          /\ \E k \in EventsOf(last.log, "set_refcount") :
                k > i /\ last.log[k].off = last.log[i].n

\* a new block was put into a grown refcount table
C26_WitnessGrown ==
    /\ last.op # "open"
    /\ \E i \in EventsOf(last.log, "new_block") :
          /\ UndoneAfter(last.log, i) # {}
          /\ \E h \in HookedBetween(last.log, i,
                                    Earliest(UndoneAfter(last.log, i))) :
                \E w \in EventsOf(last.log, "switch_table") : i < w /\ w < h

\* the update of a range stopped behind its first cluster at a cluster whose
\* block had to be allocated
C26_WitnessInRange ==
    /\ last.op # "open"
    /\ \E i \in EventsOf(last.log, "new_block") :
          SetBetween(last.log, AskedBy(last.log, i), i,
                     last.log[AskedBy(last.log, i)].tab) # {}

\* the steps of a trace at which the write of the refcount table entry of a
\* new block was tried
EntryWrites(log) ==
    EventsOf(log, "write_entry") \cup EventsOf(log, "write_entry_fail")

\* the step before step w at which the block written into the table at step
\* w was allocated
AllocatedAt(log, w) ==
    Latest({i \in EventsOf(log, "new_block") :
               i < w /\ log[i].off = log[w].off})

\* C27: when a new refcount block is bootstrapped, the L2 table cache is
\* flushed before the cluster of the block is allocated, the new block is
\* flushed to disk before the refcount table entry pointing to it is
\* written to disk, and the entry in memory is set only after that write
\* succeeded.
C27_BootstrapOrder ==
    last.op # "open" =>
        /\ \A i \in EventsOf(last.log, "new_block") :
              \E f \in EventsOf(last.log, "flush_l2"),
                 q \in EventsOf(last.log, "noref") :
                  /\ AskedBy(last.log, i) < f /\ f < q /\ q < i
                  /\ last.log[q].off = last.log[i].off
        /\ \A w \in EntryWrites(last.log) :
              \E z \in EventsOf(last.log, "cache_get_empty"),
                 r \in EventsOf(last.log, "flush_refcount") :
                  /\ AllocatedAt(last.log, w) < z /\ z < r /\ r < w
                  /\ last.log[z].off = last.log[w].off
        /\ \A h \in EventsOf(last.log, "block_hooked") :
              \/ /\ last.log[h - 1].ev = "write_entry"
                 /\ last.log[h - 1].off = last.log[h].off
              \/ \E g \in EventsOf(last.log, "switch_table") :
                    AllocatedAt(last.log, h) < g /\ g < h
        /\ \A w \in EventsOf(last.log, "write_entry_fail") :
              /\ w = Latest(EntryWrites(last.log))
              /\ ReftOffsetMask(s.refcount_table[last.log[w].n]) = 0

\* a new block was written, its table entry was written, and then the entry
\* in memory was set
C27_Witness ==
    /\ last.op # "open"
    /\ \E h \in EventsOf(last.log, "block_hooked") :
          /\ last.log[h - 1].ev = "write_entry"
          /\ s.refcount_table[last.log[h - 1].n] = last.log[h].off

\* the write of the table entry failed
C27_WitnessFailed ==
    /\ last.op # "open"
    /\ EventsOf(last.log, "write_entry_fail") # {}

\* the clusters that a refcount block of the table described
DescribedBy(table) ==
    UNION {(k * refcount_block_size)..((k + 1) * refcount_block_size - 1) :
              k \in {k \in DOMAIN table : ReftOffsetMask(table[k]) # 0}}

\* C28: after a successful growth of the refcount table every cluster taken
\* by the new table and by the new refcount blocks that describe it has
\* refcount 1 when read through the new table, every such block has its
\* slot in the new table, and all of these clusters lie above every cluster
\* that had a refcount block before the growth.
C28_GrowthDescribesItself ==
    last.op # "open" =>
        \A i \in EventsOf(last.log, "switch_table") :
            LET g == last.log[i].tab
                size == last.log[i].n
                meta == g.meta_first..(g.meta_first + g.meta_count - 1)
                block(j) == (g.meta_first + j) * cluster_size
            IN  /\ DOMAIN g.meta_refcounts = meta
                /\ \A c \in meta : g.meta_refcounts[c] = 1
                /\ \A j \in 0..(g.blocks_clusters - 1) :
                      /\ g.blocks_used + j < size
                      /\ g.table[g.blocks_used + j] = block(j)
                /\ \A c \in meta :
                      c \div refcount_block_size
                          \in {g.blocks_used + j : j \in 0..(g.blocks_clusters - 1)}
                /\ last.log[i].off \div cluster_size
                       = g.meta_first + g.blocks_clusters
                /\ \A c \in meta, d \in DescribedBy(g.old.table) : d < c

\* the table of an image with refcount blocks grew
C28_Witness ==
    /\ last.op # "open"
    /\ \E i \in EventsOf(last.log, "switch_table") :
          /\ DescribedBy(last.log[i].tab.old.table) # {}
          /\ last.log[i].tab.meta_count >= 2

\* the rebuilds of the refcount structure that the last check completed, by
\* the place of their record
Rebuilds == IF last.op = "open" THEN {} ELSE EventsOf(last.log, "rebuilt")

\* C29: after rebuild_refcount_structure succeeds, get_refcount of every
\* cluster below the final cluster count, read through the new refcount
\* table, is the final value of the in-memory table of the check at that
\* cluster; every new refcount block and every cluster of the new table is
\* counted in it, and the header points to the new table.
C29_RebuildMatchesImage ==
    \A i \in Rebuilds :
        LET g == last.log[i].tab
            table_offset == last.log[i].off
            table_size == last.log[i].n
        IN  /\ DOMAIN g.rt = 0..(g.nb - 1)
            /\ \A c \in 0..(g.nb - 1) : g.refcounts[c] = g.rt[c]
            /\ \A k \in DOMAIN g.table :
                  g.table[k] # 0 =>
                      /\ g.table[k] \div cluster_size < g.nb
                      /\ g.rt[g.table[k] \div cluster_size] = 1
            /\ \A c \in ClustersOf(table_offset, table_size * 8) :
                  c < g.nb /\ g.rt[c] = 1
            /\ g.hdr.refcount_table_offset = table_offset
            /\ g.hdr.refcount_table_clusters = size_to_clusters(table_size * 8)
            /\ g.disk_tables[table_offset] = g.table

\* a rebuild completed on an image whose clusters in use reach into a second
\* refcount block
C29_Witness ==
    \E i \in Rebuilds :
        /\ last.log[i].tab.nb > refcount_block_size
        /\ Cardinality({k \in DOMAIN last.log[i].tab.table :
                           last.log[i].tab.table[k] # 0}) >= 2
        /\ \E c \in DOMAIN last.log[i].tab.rt : last.log[i].tab.rt[c] >= 2

\* the entries of the active mapping of an image that check_oflag_copied
\* looks at, as <<entry, cluster referenced, index in the L1 table, index in
\* the L2 table or 0>>: the L1 entries with an L2 table and the normal
\* entries of these L2 tables
ActiveEntries(S) ==
    LET tables == {i \in 1..S.l1_size : L1eOffsetMask(S.l1_table[i]) # 0}
        l2(i) == DiskL2At(S, L1eOffsetMask(S.l1_table[i]))
    IN  {<<S.l1_table[i], L1eOffsetMask(S.l1_table[i]) \div cluster_size, i, 0>> :
            i \in tables}
        \cup UNION {{<<l2(i)[j], L2eOffsetMask(l2(i)[j]) \div cluster_size, i, j>> :
                        j \in {j \in 1..l2_size :
                                  qcow2_get_cluster_type(l2(i)[j]) = "NORMAL"}} :
                    i \in tables}

\* the entries whose copied flag is not set exactly when the stored
\* refcount of the cluster is 1
Mismatched(S) ==
    {e \in ActiveEntries(S) : (Refcount(S, e[2]) = 1) # HasCopied(e[1])}

\* the corruptions that check_oflag_copied counted in the last check
OflagCorruptions ==
    last.res.corruptions
        - last.log[Latest(EventsOf(last.log, "oflag"))].tab.corruptions

CheckedWithoutError(fix) ==
    /\ last.op = "check_refcounts"
    /\ last.fix = fix
    /\ last.ret = 0
    /\ last.res.check_errors = 0

Unread(S) ==
    LET skips == {last.log[k] : k \in EventsOf(last.log, "oflag_skip")}
        table(e) == L1eOffsetMask(S.l1_table[e[3]]) \div cluster_size
    IN  {e \in ActiveEntries(S) :
            \E k \in skips :
                \/ k.n = 0 /\ k.off = table(e)
                \/ k.n # 0 /\ k.n = e[4] /\ k.off = e[2]}

C30_WitnessL1 ==
    /\ \E fix \in {{"ERRORS"}, {"ERRORS", "LEAKS"}} : CheckedWithoutError(fix)
    /\ s.l1_table # last.pre.l1_table
    /\ Mismatched(s) = {}

\* a check in report-only mode counted a mismatch
C30_WitnessReport ==
    /\ CheckedWithoutError({})
    /\ OflagCorruptions >= 1
    /\ Unread(s) = {}

\* a check in fix-errors mode completed without error and left the mismatch
\* of an entry whose refcount it could not read
C30_WitnessUnread ==
    /\ CheckedWithoutError({"ERRORS"})
    /\ Mismatched(s) # {}

\* the clusters whose refcounts are compared before and after a call
Compared == 0..(8 * refcount_block_size - 1)

\* the length of the run of clusters, at most n from cluster c on, that are
\* free in the image S and not among the clusters `taken`
RunLength(S, c, n, taken) ==
    Cardinality({i \in 0..(n - 1) :
                    \A j \in 0..i : Refcount(S, c + j) = 0 /\ (c + j) \notin taken})

\* the clusters of the old refcount tables that the growths of a run released
ReleasedTables(log) ==
    UNION {ClustersOf(log[i].off, log[i].tab) :
              i \in {i \in EventsOf(log, "free_old_table_done") : log[i].n = 0}}

ClustersAllocatedAt == last.op = "alloc_clusters_at" /\ last.ret >= 0

\* C31 as claimed: qcow2_alloc_clusters_at(offset, n) returns the length
\* k <= n of the run of free clusters that starts at offset and stops at the
\* first cluster in use, raises exactly those k clusters to refcount 1 and
\* changes no other cluster's refcount; with n = 0 it returns 0 and changes
\* nothing.
C31_AsClaimed ==
    ClustersAllocatedAt =>
        LET c == last.a \div cluster_size
            k == RunLength(last.pre, c, last.b, {})
        IN  /\ last.ret = k
            /\ \A x \in Compared :
                  Refcount(s, x) = IF x \in c..(c + k - 1) THEN 1
                                   ELSE Refcount(last.pre, x)
            /\ last.b = 0 => s = last.pre

\* C31 amended: qcow2_alloc_clusters_at(offset, n) returns the length k <= n
\* of the run of clusters from offset on that were free when it was called
\* and in which the call did not place a refcount block or table, raises
\* exactly those k clusters to refcount 1, and changes besides only the
\* refcounts of the clusters of the refcount blocks and tables it put in
\* force (to 1) and of the old table it released; with n = 0 it returns 0
\* and changes nothing.
C31_AllocatesFreeRun ==
    ClustersAllocatedAt =>
        LET c == last.a \div cluster_size
            meta == TakenForMeta(last.log)
            k == RunLength(last.pre, c, last.b, meta)
        IN  /\ last.ret = k
            /\ \A x \in c..(c + k - 1) : Refcount(s, x) = 1
            /\ \A x \in meta : Refcount(s, x) = 1
            /\ \A x \in Compared \ (c..(c + k - 1)) :
                  x \notin meta \cup ReleasedTables(last.log)
                      => Refcount(s, x) = Refcount(last.pre, x)
            /\ last.b = 0 => s = last.pre

\* a run of two clusters was asked for and the second was in use
C31_Witness ==
    /\ ClustersAllocatedAt
    /\ last.b = 2
    /\ last.ret = 1
    /\ TakenForMeta(last.log) = {}

\* the call placed the refcount block of the cluster asked for in that cluster
C31_WitnessPlaced ==
    /\ ClustersAllocatedAt
    /\ last.b >= 1
    /\ last.ret = 0
    /\ (last.a \div cluster_size) \in TakenForMeta(last.log)

\* no cluster was asked for
C31_WitnessNone == ClustersAllocatedAt /\ last.b = 0

\* the iterations of update_refcount's loop, in all its calls, that set a
\* counter to 0
ZeroedAt(log) == EventsOf(log, "zeroed")

\* the iteration at i of log handed the byte range of its cluster to
\* update_refcount_discard
HandedOver(log, i) ==
    /\ i > 1
    /\ log[i - 1].ev = "enqueue_discard"
    /\ log[i - 1].off = log[i].off * cluster_size
    /\ log[i - 1].n = cluster_size

\* free_cluster_index goes below its value before the operation only to a
\* cluster whose counter the operation set to 0
LoweredByZeroOnly ==
    /\ ZeroedAt(last.log) = {} => s.free_cluster_index >= last.pre.free_cluster_index
    /\ s.free_cluster_index < last.pre.free_cluster_index =>
           \E i \in ZeroedAt(last.log) : last.log[i].off <= s.free_cluster_index

\* C32 as claimed: when update_refcount lowers a cluster's counter to 0,
\* free_cluster_index is at most the cluster's index afterwards and the
\* cluster's byte range is handed to the discard queue; nothing else lowers
\* free_cluster_index.
C32_AsClaimed ==
    last.op # "open" =>
    /\ \A i \in ZeroedAt(last.log) :
           /\ last.log[i].n <= last.log[i].off
           /\ HandedOver(last.log, i)
    /\ LoweredByZeroOnly

\* C32 amended: when update_refcount lowers a cluster's counter to 0,
\* free_cluster_index is at most the cluster's index afterwards, and the
\* cluster's byte range is handed to the discard queue exactly when the
\* discard type of the call is passed through; nothing else lowers
\* free_cluster_index.
C32_ZeroLowersFreeIndex ==
    last.op # "open" =>
    /\ \A i \in ZeroedAt(last.log) :
           /\ last.log[i].n <= last.log[i].off
           /\ HandedOver(last.log, i) <=> last.pre.discard_passthrough[last.log[i].tab]
    /\ LoweredByZeroOnly

\* a counter set to 0 in a cluster below free_cluster_index, with a discard
\* type that is passed through
C32_Witness ==
    /\ last.op # "open"
    /\ \E i \in ZeroedAt(last.log) :
        /\ last.log[i].off < last.pre.free_cluster_index
        /\ last.log[i].n = last.log[i].off
        /\ last.pre.discard_passthrough[last.log[i].tab]
        /\ HandedOver(last.log, i)

\* a counter set to 0 by a call whose discard type is not passed through
C32_WitnessKept ==
    /\ last.op # "open"
    /\ \E i \in ZeroedAt(last.log) :
        /\ ~last.pre.discard_passthrough[last.log[i].tab]
        /\ ~HandedOver(last.log, i)

\* an allocation that advances free_cluster_index
C32_WitnessAdvanced ==
    /\ last.op # "open"
    /\ ZeroedAt(last.log) = {}
    /\ s.free_cluster_index > last.pre.free_cluster_index

\* the bytes of the regions of the discard queue q
RegionBytes(q) ==
    UNION {q[k].offset..(q[k].offset + q[k].bytes - 1) : k \in DOMAIN q}

\* no two regions of q overlap or touch
Apart(q) ==
    \A j, k \in DOMAIN q :
        j # k => \/ q[j].offset + q[j].bytes < q[k].offset
                 \/ q[k].offset + q[k].bytes < q[j].offset

Enqueues(log) == EventsOf(log, "enqueue_discard")

\* the last qcow2_process_discards before position i of log, 0 without one
DrainedBefore(log, i) ==
    LET d == {j \in EventsOf(log, "process_discards") : j < i}
    IN  IF d = {} THEN 0 ELSE CHOOSE j \in d : \A k \in d : k <= j

\* the bytes enqueued since the queue was last drained, up to position i of
\* the operation's log
EnqueuedSince(log, i) ==
    LET d == DrainedBefore(log, i)
    IN  (IF d = 0 THEN RegionBytes(last.pre.discards) ELSE {})
        \cup UNION {log[j].off..(log[j].off + log[j].n - 1) :
                       j \in {j \in Enqueues(log) : d < j /\ j <= i}}

\* C33: after every enqueue by update_refcount_discard the queued regions
\* neither overlap nor touch one another, and their union is the union of
\* all ranges enqueued since the queue was last drained.
C33_QueueCoalesced ==
    last.op # "open" =>
        \A i \in Enqueues(last.log) :
            /\ Apart(last.log[i].tab)
            /\ RegionBytes(last.log[i].tab) = EnqueuedSince(last.log, i)

\* an enqueue of the range between two queued regions, which leaves one
C33_Witness ==
    /\ last.op # "open"
    /\ Len(last.pre.discards) = 2
    /\ \E i \in Enqueues(last.log) :
          /\ DrainedBefore(last.log, i) = 0
          /\ Len(last.log[i].tab) = 1
          /\ Cardinality(RegionBytes(last.log[i].tab)) = 3 * cluster_size

\* an enqueue that leaves two regions apart
C33_WitnessApart ==
    /\ last.op # "open"
    /\ \E i \in Enqueues(last.log) : Len(last.log[i].tab) = 2

\* the byte ranges qcow2_alloc_bytes returned that have bytes in cluster c
RangesIn(c) ==
    {a \in live : /\ a.offset < (c + 1) * cluster_size
                  /\ a.offset + a.size > c * cluster_size}

\* the clusters that hold bytes of a returned range
RangeClusters ==
    UNION {(a.offset \div cluster_size)..((a.offset + a.size - 1) \div cluster_size) :
              a \in live}

RangesDisjoint ==
    \A a, b \in live :
        a.id # b.id => \/ a.offset + a.size <= b.offset
                       \/ b.offset + b.size <= a.offset

\* C34 as claimed: after any sequence of qcow2_alloc_bytes calls that
\* returned an offset, no two returned byte ranges overlap, and the refcount
\* of each cluster is the number of the returned ranges that have bytes in
\* it.
C34_RefcountCountsRanges ==
    /\ RangesDisjoint
    /\ \A c \in RangeClusters : Refcount(s, c) = Cardinality(RangesIn(c))

\* the same of the calls during which no I/O call failed
C34_WithoutFailures ==
    /\ RangesDisjoint
    /\ allok => \A c \in RangeClusters : Refcount(s, c) = Cardinality(RangesIn(c))

\* a cluster that three returned ranges share
C34_WitnessShared ==
    /\ allok
    /\ \E c \in RangeClusters : Cardinality(RangesIn(c)) = 3 /\ Refcount(s, c) = 3

\* a range returned by a call whose increment of the refcount failed
C34_WitnessIgnored ==
    /\ last.op = "alloc_bytes" /\ last.ret >= 0 /\ last.failed
    /\ \E c \in RangeClusters : Refcount(s, c) < Cardinality(RangesIn(c))

\* the regions handed to bdrv_discard, each with the refcounts its clusters
\* had then
ForwardedAt(log) == EventsOf(log, "forwarded")

\* the operations that are one outermost update_refcount call
OneUpdate == last.op \in {"free_clusters", "update_cluster_refcount"}

\* C35 as claimed: every cluster of a region that qcow2_process_discards
\* hands to bdrv_discard has refcount 0 then, and no cluster discarded during
\* an update_refcount call has a nonzero refcount when the outermost call
\* returns.
C35_DiscardedAreFree ==
    last.op # "open" =>
        \A i \in ForwardedAt(last.log) :
            \A c \in DOMAIN last.log[i].tab :
                /\ last.log[i].tab[c] = 0
                /\ OneUpdate => Refcount(s, c) = 0

\* the same of the update_refcount calls that allocate no refcount block
C35_WithoutBootstrap ==
    (last.op # "open" /\ EventsOf(last.log, "new_block") = {}) =>
        \A i \in ForwardedAt(last.log) :
            \A c \in DOMAIN last.log[i].tab :
                /\ last.log[i].tab[c] = 0
                /\ OneUpdate => Refcount(s, c) = 0

\* C36: every reference to a refcount block that an operation takes from
\* the cache (by get, get_empty or load) is put back exactly once before the
\* operation returns, on success, on -EAGAIN and on every error, so that no
\* reference is held between operations.
C36_ReferencesPutBack ==
    /\ s.refs = 0
    /\ last.op # "open" => EventsOf(last.log, "put_unheld") = {}

\* an operation that got a new refcount block from the cache, hooked it up
\* and returned -EAGAIN
C36_Witness ==
    /\ last.op = "update_cluster_refcount"
    /\ last.ret = EAGAIN
    /\ EventsOf(last.log, "cache_get_empty") # {}
    /\ last.cache_ops >= 2

\* an operation that failed while it held the new refcount block
C36_WitnessFailed ==
    /\ last.op # "open"
    /\ last.ret = EIO
    /\ last.failed
    /\ \E i \in EventsOf(last.log, "cache_get_empty") :
          \E j \in EventsOf(last.log, "flush_refcount_fail") : i < j

\* an operation that grew the refcount table and loaded the new block again
C36_WitnessGrown ==
    /\ last.op # "open"
    /\ EventsOf(last.log, "switch_table") # {}
    /\ last.cache_ops >= 4

\* the compensating calls of the last operation, as the steps where they
\* ended
Undone ==
    IF last.op = "open" THEN {} ELSE EventsOf(last.log, "undo_done")

\* the blocks that alloc_refcount_block allocated between steps i and j
AllocatedBetween(log, i, j) ==
    {k \in EventsOf(log, "new_block") \cup EventsOf(log, "noref") : i < k /\ k < j}

\* C37: the update_refcount call that undoes a failed update allocates no
\* refcount block and never returns -EAGAIN, also when the update failed in
\* a growth that replaced the refcount table.
C37_UndoNeverBootstraps ==
    \A d \in Undone :
        /\ AllocatedBetween(last.log, UndoOf(last.log, d), d) = {}
        /\ last.log[d].n # EAGAIN

\* the undo of a prefix of a range after a growth of the table that made the
\* update fail with -EAGAIN
C37_Witness ==
    \E d \in Undone :
        /\ last.log[UndoOf(last.log, d)].n > 0
        /\ last.log[UndoOf(last.log, d)].tab.ret = EAGAIN
        /\ \E g \in EventsOf(last.log, "switch_table") :
              CallOf(last.log, d) < g /\ g < UndoOf(last.log, d)
        /\ SetBetween(last.log, UndoOf(last.log, d), d,
                      last.log[d].tab.level) # {}

\* the undo of a prefix of a range after a refcount block was hooked into
\* the table
C37_WitnessHooked ==
    \E d \in Undone :
        /\ last.log[UndoOf(last.log, d)].n > 0
        /\ \E h \in EventsOf(last.log, "block_hooked") :
              CallOf(last.log, d) < h /\ h < UndoOf(last.log, d)
        /\ last.log[d].n = 0

\* a call of qcow2_alloc_clusters has returned the offset of a cluster
ReturnedOffset ==
    /\ last.op = "alloc_clusters"
    /\ last.ret >= 0
    /\ offset_into_cluster(last.ret) = 0

\* C38 as claimed: while no I/O call fails, every call of
\* qcow2_alloc_clusters gets -EAGAIN only finitely often and then returns
\* the offset of a cluster, in every reachable image and for every size.
C38_AsClaimed ==
    /\ last.op = "alloc_clusters" => ReturnedOffset
    /\ InCall => last.restarts < MaxRestarts

\* C38 amended: while no I/O call fails, every call of qcow2_alloc_clusters
\* gets -EAGAIN only finitely often and then returns, either the offset of a
\* cluster or -EFBIG, the latter when the request reaches past the clusters
\* that a refcount table of QCOW_MAX_REFTABLE_SIZE bytes describes.
C38_Terminates ==
    InCall ~> (ReturnedOffset \/ (last.op = "alloc_clusters" /\ last.ret = EFBIG))

\* what a returned call leaves: the clusters at the offset have refcount
\* 1, and -EFBIG comes only when a cluster of the
\* request, or of a refcount block allocated for it, lies behind the last
\* cluster a refcount table can describe
C38_Returned ==
    last.op = "alloc_clusters" =>
        IF last.ret >= 0
        THEN \A c \in ClustersOf(last.ret, last.a) : Refcount(s, c) = 1
        ELSE /\ last.ret = EFBIG
             /\ \E g \in EventsOf(last.log, "grow_begin") :
                   MAX(last.log[g].n, last.log[g].off \div cluster_size)
                       >= (QCOW_MAX_REFTABLE_SIZE \div 8) * refcount_block_size

\* a call that returned an offset after two or more passes were answered
\* with -EAGAIN
C38_Witness == ReturnedOffset /\ last.b >= 2

\* a call that returned -EFBIG
C38_WitnessTooBig == last.op = "alloc_clusters" /\ last.ret = EFBIG

\* the rebuild that returned
Rebuilt == last.op = "rebuild"

\* the new table has an offset and the refcount block of every used cluster
\* of the in-memory table was written
RebuildComplete ==
    /\ last.ret = 0
    /\ last.reftable_offset >= 0
    /\ \A c \in 0..(last.nb - 1) :
          last.rt[c] # 0 =>
              LET x == c \div refcount_block_size
              IN  /\ x < last.reftable_size
                  /\ last.on_disk_reftable[x] # 0
                  /\ last.on_disk_reftable[x] \in DOMAIN s.disk_blocks
                  /\ s.disk_blocks[last.on_disk_reftable[x]]
                         [c % refcount_block_size] = last.rt[c]

\* C39: as claimed, without I/O errors rebuild_refcount_structure ends, for
\* every consistency image, with a table that has a valid offset and with
\* every refcount block that covers a used cluster written
C39_RebuildTerminates == Rebuilt => RebuildComplete

\* the images of fewer than 157 clusters are rebuilt
C39_SmallImages == (Rebuilt /\ last.a < 157) => RebuildComplete

\* a rebuild that went through the cycle: the table was allocated behind the
\* refcount blocks and the loop entered again
C39_WitnessCycle ==
    /\ Rebuilt /\ RebuildComplete
    /\ last.nb > last.a
    /\ last.reftable_offset \div cluster_size
           >= ROUND_UP(last.a, refcount_block_size)

\* a rebuild that went on until the in-memory table could not grow
C39_WitnessExhausted ==
    /\ Rebuilt /\ last.ret = ENOMEM /\ last.shape = "dense"
    /\ last.reftable_offset < 0

\* the walk of qcow2_update_snapshot_refcount that returned
Walked == last.op = "update_snapshot_refcount"

\* the call of qcow2_process_discards behind the label fail: the last one
\* of the call
FinalDiscards(log) ==
    CHOOSE p \in EventsOf(log, "process_discards") :
        \A q \in EventsOf(log, "process_discards") : q <= p

\* the regions forwarded before the walk had finished
ForwardedEarly(log) ==
    {i \in EventsOf(log, "bdrv_discard") : i < FinalDiscards(log)}

\* C40: as claimed, no queued discard is forwarded before the walk of
\* qcow2_update_snapshot_refcount has finished, a walk that fails forwards
\* none at all, and at the return cache_discards is false and the queue empty
C40_AsClaimed ==
    Walked =>
        /\ ForwardedEarly(last.log) = {}
        /\ last.ret < 0 => EventsOf(last.log, "bdrv_discard") = {}
        /\ ~s.cache_discards /\ s.discards = <<>>

\* the events between which no call of qcow2_process_discards lies
Undrained(log, e, k) ==
    \A d \in EventsOf(log, "process_discards") : ~(e < d /\ d < k)

\* the regions queued when event k of the log was recorded
QueuedAt(log, k) ==
    {e \in EventsOf(log, "enqueue_discard") : e < k /\ Undrained(log, e, k)}

\* the counters of a forwarded region, read when it was forwarded
ForwardedFree(log, i) ==
    /\ i < Len(log) /\ log[i + 1].ev = "forwarded"
    /\ \A c \in DOMAIN log[i + 1].tab : log[i + 1].tab[c] = 0

\* C40 (amended): during qcow2_update_snapshot_refcount queued discards are
\* forwarded before the walk has finished only by alloc_clusters_noref, which
\* hands on, with ret = 0, every region queued so far before it looks for
\* free clusters (and finds them, or fails and has the update undone), so
\* that no cluster is taken while it is queued; the regions
\* forwarded early are free when they are forwarded.  The call behind the
\* label fail forwards the regions still queued when the walk succeeded and
\* drops them when it failed, and at the return cache_discards is false and
\* the queue is empty.
C40_DiscardsAfterWalk ==
    Walked =>
        LET log == last.log
            p == FinalDiscards(log)
        IN  /\ \A d \in EventsOf(log, "process_discards") :
                  d < p => /\ log[d].off = 0
                           /\ log[d + 2 * log[d].n + 1].ev
                                  \in {"noref", "undo"}
            /\ \A i \in ForwardedEarly(log) : ForwardedFree(log, i)
            /\ \A k \in EventsOf(log, "noref") : QueuedAt(log, k) = {}
            /\ log[p].off < 0 =>
                  \A i \in EventsOf(log, "bdrv_discard") : i < p
            /\ log[p].off >= 0 =>
                  Cardinality({i \in EventsOf(log, "bdrv_discard") : i > p})
                      = log[p].n
            /\ ~s.cache_discards /\ s.discards = <<>>

\* a walk that forwarded a queued region before it took the region's cluster
\* for a refcount block, and then failed
C40_Witness ==
    /\ Walked /\ last.ret < 0
    /\ \E i \in ForwardedEarly(last.log), k \in EventsOf(last.log, "noref") :
          /\ i < k
          /\ last.log[k].off = last.log[i].off

\* a walk that succeeded and forwarded the queued regions behind it
C40_WitnessAfter ==
    /\ Walked /\ last.ret = 0
    /\ ForwardedEarly(last.log) = {}
    /\ EventsOf(last.log, "bdrv_discard") # {}

\* a walk that failed and dropped the queued regions
C40_WitnessDropped ==
    /\ Walked /\ last.ret < 0
    /\ last.log[FinalDiscards(last.log)].n > 0
    /\ EventsOf(last.log, "bdrv_discard") = {}

====
